---------------------------- MODULE Spec2Model ----------------------------
(***************************************************************************)
(* Verification model of DeJaVu Mini (ViaVeritas/dejavu-mini-bolt).        *)
(*                                                                         *)
(* Twelve specifications share this module:                                *)
(*   Spec       - the Shared Chat Context Store (sharedContext.ts) driven  *)
(*                by the LabScreen handlers (handleSendMessage, chat tab   *)
(*                open/close, poll, message-sync effect, Reset All), with  *)
(*                every await on AsyncStorage as an interleaving point;    *)
(*   SpecStage  - the Conversation Stage Tracker (getCurrentStage,         *)
(*                calculateSetupProgress) applied to bounded transcripts;  *)
(*   SpecSend   - AIService.sendMessage: stage preparation, daily-summary  *)
(*                tracking, the gateway call and the error conversion;     *)
(*   SpecVision - the vision extraction from an AI response;               *)
(*   SpecCross  - getCrossChatContext over stamped chats;                  *)
(*   SpecPath   - the progress paths of the ProgressPathManager;           *)
(*   SpecGoals  - the goal lists of the mobile screens and Reset All Data; *)
(*   SpecChat   - the ChatScreen: sends, loading placeholder, stage marker;*)
(*   SpecSetup  - the timers that follow the creation of the vision file;  *)
(*   SpecPoll   - the LabScreen poll beside proactive check-ins;           *)
(*   SpecApp    - the navigation state of the web App;                     *)
(*   SpecDetail - the goal list of the web GoalDetailScreen.               *)
(***************************************************************************)
EXTENDS Integers, Sequences, FiniteSets, TLC

(***************************************************************************)
(* Bounds of the store model.                                              *)
(***************************************************************************)
MaxMsgs == 4
MaxSends == 2
MaxSyncs == 1
MaxPending == 2
MaxActions == 4

\* Bound of the send model: calls of AIService.sendMessage.
MaxCalls == 2

VARIABLES
    contextData,    \* SharedContextManager.contextData.allChats (insertion-ordered)
    disk,           \* AsyncStorage value under 'shared_context_data'
    pendingWrites,  \* AsyncStorage.setItem calls issued and not yet completed
    writeFailed,    \* some setItem rejected (caught and logged by saveToStorage)
    storeWritten,   \* some store write has called saveToStorage in this session
    mountPc,        \* LabScreen mount effect: loadFromStorage, then restore
    loadRead,       \* what AsyncStorage.getItem of the mount effect read
    activeTabs,     \* LabScreen state activeTabs (tab ids, in order)
    messages,       \* LabScreen state messages (insertion-ordered tabId -> list)
    dirty,          \* messages / activeTabs changed since the sync effect last ran
    syncs,          \* running syncMessagesWithContext calls
    sends,          \* handleSendMessage calls waiting for the AI reply
    resetPc,        \* resetAllChats position
    nextId,         \* issue counter of chat messages (creation order)
    userActions,    \* number of user actions handled so far (bounded by MaxActions)
    history,        \* conversationHistory handed to the stage tracker
    cursor,         \* index in Samples of the last message put into history
    today,          \* new Date().getDay() of the local clock, 0 = Sunday
    stagePc,        \* "building" the transcript or stage "evaluated"
    chatType,       \* chatType?.type of the evaluated send
    currentStage,   \* currentStage of prepareMessageContext
    setupProgress,  \* calculateSetupProgress(history), in hundredths of a percent
    viaRAG,         \* AIService.viaRAG is set (an API key was configured)
    dailySummaries, \* AIService.dailySummaries (insertion-ordered Map by date key)
    visionFile,     \* the vision file kept by VisionFileManager
    chatMessages,   \* ChatScreen state messages, as role / content
    sendPc,         \* position of the running AIService.sendMessage call
    caller,         \* who called sendMessage
    message,        \* its message argument
    aiResponse,     \* what sendToViaRAG returned
    thrown,         \* the exception caught at the top of the send path
    result,         \* the AIResponse the call resolved with
    sendsDone,      \* calls completed so far (bounded by MaxCalls)
    responseLines,  \* aiResponse.split('\n') handed to the vision extraction
    visionPc,       \* "building" the AI response or vision data "extracted"
    visionSummary,  \* result of extractStructuredVisionSummary
    visionData,     \* result of extractVisionDataFromConversation
    crossChats,     \* contextData.allChats with the lastUpdated stamps
    clock,          \* the device clock, in milliseconds
    crossPc,        \* "building" the chats or cross-chat context "answered"
    excluded,       \* the excludeTabId of the getCrossChatContext call
    crossContext,   \* the lines of the text getCrossChatContext returned
    pathStorage,    \* AsyncStorage values under the 'progress_path_{categoryId}' keys
    pathCalls,      \* the AIService.createProgressPathForCategory calls made so far
    events,         \* the events emitted on the event bus, in order
    pathClock,      \* the day the device clock shows
    goalStorage,    \* AsyncStorage values under the 'goals_{title}_{type}' keys
    screen,         \* the mounted GoalDetailScreen: its category key, goals and load state
    goalCounts,     \* goalCount / completedCount of the LabScreen category cards
    readLog,        \* the last storage read of a loader and whether it failed
    resetReported,  \* the alert resetAllChats showed last
    goalSteps,      \* steps taken on the goal lists so far (bounded by MaxGoalSteps)
    screenMessages, \* ChatScreen state messages (text, isUser, isLoading)
    chatInput,      \* ChatScreen state inputText
    isLoading,      \* ChatScreen state isLoading
    stageProgress,  \* ChatScreen state stageProgress
    chatCalls,      \* the aiService.sendMessage calls the ChatScreen awaits
    chatDay,        \* new Date().getDay() seen by the ChatScreen
    chatSends,      \* messages sent from the ChatScreen so far (bounded by MaxChatSends)
    categoryEvents, \* CATEGORY_CREATED events delivered so far (bounded by MaxCategoryEvents)
    setupRuns,      \* the committing setup sends: the send, its result and the timer chain it armed
    setupLog,       \* what each send and the tasks of its chain did, in order
    checkIns,       \* ids of the check-in messages the proactive manager has written
    currentScreen,  \* App state currentScreen
    isLoggedIn,     \* App state isLoggedIn
    isDarkMode,     \* App state isDarkMode
    selectedGoal,   \* App state selectedGoal (NoGoal: null)
    activeGoalContext, \* App state activeGoalContext (NoGoal: null)
    showGoalChat,   \* App state showGoalChat
    individualGoals, \* web GoalDetailScreen state individualGoals
    newGoals        \* goals added through the form so far (bounded by MaxNewGoals)

storeVars == <<contextData, disk, pendingWrites, writeFailed, storeWritten>>
labVars == <<mountPc, loadRead, activeTabs, messages, dirty, syncs, sends,
             resetPc, nextId, userActions>>

stageVars == <<history, cursor, today, stagePc, chatType, currentStage, setupProgress>>

sendVars == <<viaRAG, dailySummaries, visionFile, chatMessages, sendPc, caller,
              message, aiResponse, thrown, result, sendsDone>>

visionVars == <<responseLines, visionPc, visionSummary, visionData>>

crossVars == <<crossChats, clock, crossPc, excluded, crossContext>>

pathVars == <<pathStorage, pathCalls, events, pathClock>>

goalVars == <<goalStorage, screen, goalCounts, readLog, resetReported, goalSteps>>

chatVars == <<screenMessages, chatInput, isLoading, stageProgress, chatCalls, chatDay, chatSends, categoryEvents>>

setupVars == <<setupRuns, setupLog>>

pollVars == <<checkIns>>

appVars == <<currentScreen, isLoggedIn, isDarkMode, selectedGoal, activeGoalContext, showGoalChat>>

detailVars == <<individualGoals, newGoals>>

\* what the actions of one component leave alone
outsideLab == <<stageVars, sendVars, visionVars, crossVars, pathVars, goalVars, chatVars, setupVars, pollVars, appVars, detailVars>>
outsideStage == <<storeVars, labVars, sendVars, visionVars, crossVars, pathVars, goalVars, chatVars, setupVars, pollVars, appVars, detailVars>>
outsideSend == <<storeVars, labVars, visionVars, crossVars, pathVars, goalVars, chatVars, setupVars, pollVars, appVars, detailVars>>
outsideVision == <<storeVars, labVars, sendVars, crossVars, pathVars, goalVars, chatVars, setupVars, pollVars, appVars, detailVars>>
outsideCross == <<storeVars, labVars, stageVars, sendVars, visionVars, pathVars, goalVars, chatVars, setupVars, pollVars, appVars, detailVars>>
outsidePath == <<storeVars, labVars, stageVars, sendVars, visionVars, crossVars, goalVars, chatVars, setupVars, pollVars, appVars, detailVars>>
outsideGoals == <<stageVars, sendVars, visionVars, crossVars, chatVars, setupVars, pollVars, appVars, detailVars>>
outsideChat == <<storeVars, labVars, stageVars, sendVars, visionVars, crossVars, pathVars, goalVars, setupVars, pollVars, appVars, detailVars>>
outsideSetup == <<storeVars, labVars, stageVars, sendVars, visionVars, crossVars, pathVars, goalVars, chatVars, pollVars, appVars, detailVars>>
outsidePoll == <<stageVars, sendVars, visionVars, crossVars, pathVars, goalVars, chatVars, setupVars, appVars, detailVars>>
outsideApp == <<storeVars, labVars, stageVars, sendVars, visionVars, crossVars, pathVars, goalVars, chatVars, setupVars, pollVars, detailVars>>
outsideDetail == <<storeVars, labVars, stageVars, sendVars, visionVars, crossVars, pathVars, goalVars, chatVars, setupVars, pollVars, appVars>>

CentralTabId == "central-hub"
CategoryTabId == "category-1"
TabIds == {CentralTabId, CategoryTabId}

NoBlob == <<"null", <<>>>>
NoOwner == <<"none", 0>>
Idle == "idle"
NoSync == [snap |-> <<>>, idx |-> 0]

(***************************************************************************)
(* Insertion-ordered maps (JavaScript objects keyed by tabId) are          *)
(* sequences of entries carrying their key in field tabId.                 *)
(***************************************************************************)
Has(m, t) == \E i \in 1..Len(m) : m[i].tabId = t

IndexOf(m, t) == CHOOSE i \in 1..Len(m) : m[i].tabId = t

Put(m, e) ==
    IF Has(m, e.tabId)
    THEN [m EXCEPT ![IndexOf(m, e.tabId)] = e]
    ELSE Append(m, e)

Remove(s, x) == SelectSeq(s, LAMBDA y : y # x)

IsPrefix(s, t) == Len(s) <= Len(t) /\ \A i \in 1..Len(s) : s[i] = t[i]

\* messages[tabId] || []
LocalMessages(m, t) == IF Has(m, t) THEN m[IndexOf(m, t)].msgs ELSE <<>>

\* setMessages(prev => ({ ...prev, [tabId]: list }))
SetLocalMessages(m, t, list) == Put(m, [tabId |-> t, msgs |-> list])

\* contextManager.getChatContext(tabId) of a tab known to exist
getChatContext(chats, t) == chats[IndexOf(chats, t)]

StoredMessages(chats, t) == IF Has(chats, t) THEN getChatContext(chats, t).messages ELSE <<>>

(***************************************************************************)
(* SharedContextManager: the two mutators and clearAllContext.  Each is    *)
(* followed by saveToStorage (below).                                      *)
(***************************************************************************)
DefaultContext(t) ==
    [tabId |-> t, title |-> "", type |-> "category", messages |-> <<>>]

\* { ...existing, ...context }: fields of the Partial<ChatContext> win
updateChatContext(chats, t, context) ==
    LET existing == IF Has(chats, t) THEN getChatContext(chats, t) ELSE DefaultContext(t)
        merged == [f \in DOMAIN existing |->
                     IF f \in DOMAIN context THEN context[f] ELSE existing[f]]
    IN  Put(chats, merged)

\* allChats[tabId].messages.push(message)
addMessage(chats, t, msg) ==
    LET existing == IF Has(chats, t) THEN getChatContext(chats, t) ELSE DefaultContext(t)
    IN  Put(chats, [existing EXCEPT !.messages = Append(@, msg)])

clearAllContext == <<>>

(***************************************************************************)
(* JSON.stringify(this.contextData) / JSON.parse in loadFromStorage: the   *)
(* blob is text; every chat becomes a tuple of its fields and every        *)
(* message a tuple <<id, sender>>.                                         *)
(***************************************************************************)
Serialize(chats) ==
    <<"json",
      [i \in 1..Len(chats) |->
        <<chats[i].tabId, chats[i].title, chats[i].type,
          [j \in 1..Len(chats[i].messages) |->
              <<chats[i].messages[j].id, chats[i].messages[j].sender>>]>>]>>

Parse(blob) ==
    LET b == blob[2]
    IN  [i \in 1..Len(b) |->
          [tabId |-> b[i][1], title |-> b[i][2], type |-> b[i][3],
           messages |-> [j \in 1..Len(b[i][4]) |->
                            [id |-> b[i][4][j][1], sender |-> b[i][4][j][2]]]]]

\* a blob left behind by an earlier session
PriorMessage == [id |-> 1, sender |-> "ai"]
PriorChats ==
    <<[tabId |-> CentralTabId, title |-> "Central Planning", type |-> "central",
       messages |-> <<PriorMessage>>]>>
PriorBlobs == {NoBlob, Serialize(PriorChats)}

\* saveToStorage: AsyncStorage.setItem(key, JSON.stringify(contextData)) is
\* called synchronously by the mutator; the promise settles later.
WriteDone(owner) == \A i \in 1..Len(pendingWrites) : pendingWrites[i].owner # owner

saveToStorage(chats, owner) ==
    /\ Len(pendingWrites) < MaxPending
    /\ pendingWrites' = Append(pendingWrites, [blob |-> Serialize(chats), owner |-> owner])
    /\ storeWritten' = TRUE
    /\ UNCHANGED <<disk, writeFailed>>


(***************************************************************************)
(* AsyncStorage completes setItem calls in the order they were issued.     *)
(***************************************************************************)
UserAction ==
    /\ userActions < MaxActions
    /\ userActions' = userActions + 1

StorageCommit ==
    /\ pendingWrites # <<>>
    /\ disk' = Head(pendingWrites).blob
    /\ pendingWrites' = Tail(pendingWrites)
    /\ UNCHANGED <<contextData, writeFailed, storeWritten>>
    /\ UNCHANGED labVars
    /\ UNCHANGED outsideLab

\* setItem rejects: saveToStorage catches and logs, the caller continues
StorageFail ==
    /\ pendingWrites # <<>>
    /\ writeFailed' = TRUE
    /\ pendingWrites' = Tail(pendingWrites)
    /\ UNCHANGED <<contextData, disk, storeWritten>>
    /\ UNCHANGED labVars
    /\ UNCHANGED outsideLab

(***************************************************************************)
(* LabScreen mount effect: loadFromStorage, then (100 ms later)            *)
(* restoreMessagesFromContext.  getItem was issued at mount and read       *)
(* loadRead; the handlers below can run before its promise resolves.       *)
(***************************************************************************)
loadFromStorage ==
    /\ mountPc = "loading"
    /\ contextData' = IF loadRead # NoBlob THEN Parse(loadRead) ELSE contextData
    /\ mountPc' = "loaded"
    /\ UNCHANGED <<disk, pendingWrites, writeFailed, storeWritten>>
    /\ UNCHANGED <<loadRead, activeTabs, messages, dirty, syncs, sends, resetPc, nextId, userActions>>
    /\ UNCHANGED outsideLab

\* getItem rejects or the blob does not parse: caught, logged, nothing changes
loadFromStorageFails ==
    /\ mountPc = "loading"
    /\ mountPc' = "loaded"
    /\ UNCHANGED storeVars
    /\ UNCHANGED <<loadRead, activeTabs, messages, dirty, syncs, sends, resetPc, nextId, userActions>>
    /\ UNCHANGED outsideLab

restoreMessagesFromContext ==
    /\ mountPc = "loaded"
    /\ mountPc' = "ready"
    /\ activeTabs' = [i \in 1..Len(contextData) |-> contextData[i].tabId]
    /\ messages' = [i \in 1..Len(contextData) |->
                      [tabId |-> contextData[i].tabId, msgs |-> contextData[i].messages]]
    /\ dirty' = TRUE
    /\ UNCHANGED storeVars
    /\ UNCHANGED <<loadRead, syncs, sends, resetPc, nextId, userActions>>
    /\ UNCHANGED outsideLab

(***************************************************************************)
(* Chat tabs.  The UI-only flags (showChatPanel, requestedActiveTabId,     *)
(* lastCheckedMessageCount) are not part of the model, so a click on a tab *)
(* that is already open changes nothing here.                              *)
(***************************************************************************)
handleChatClick ==
    /\ UserAction
    /\ \A i \in 1..Len(activeTabs) : activeTabs[i] # CategoryTabId
    /\ activeTabs' = Append(activeTabs, CategoryTabId)
    /\ messages' = SetLocalMessages(messages, CategoryTabId, <<>>)
    /\ contextData' = updateChatContext(contextData, CategoryTabId,
                          [title |-> "CSE201 Project 4", type |-> "category",
                           messages |-> <<>>])
    /\ saveToStorage(contextData', NoOwner)
    /\ dirty' = TRUE
    /\ UNCHANGED <<mountPc, loadRead, syncs, sends, resetPc, nextId>>
    /\ UNCHANGED outsideLab

handleCentralChatClick ==
    /\ UserAction
    /\ \A i \in 1..Len(activeTabs) : activeTabs[i] # CentralTabId
    /\ activeTabs' = <<CentralTabId>> \o activeTabs
    /\ messages' = SetLocalMessages(messages, CentralTabId, <<>>)
    /\ contextData' = updateChatContext(contextData, CentralTabId,
                          [title |-> "Central Planning", type |-> "central",
                           messages |-> <<>>])
    /\ saveToStorage(contextData', NoOwner)
    /\ dirty' = TRUE
    /\ UNCHANGED <<mountPc, loadRead, syncs, sends, resetPc, nextId>>
    /\ UNCHANGED outsideLab

\* the chat panel closes tab t and hands the remaining tabs to handleUpdateTabs
handleUpdateTabs(t) ==
    /\ UserAction
    /\ \E i \in 1..Len(activeTabs) : activeTabs[i] = t
    /\ activeTabs' = Remove(activeTabs, t)
    /\ dirty' = TRUE
    /\ UNCHANGED storeVars
    /\ UNCHANGED <<mountPc, loadRead, messages, syncs, sends, resetPc, nextId>>
    /\ UNCHANGED outsideLab

(***************************************************************************)
(* handleSendMessage: the user message goes to the local list and to the   *)
(* store in one turn; after the save and the AI call the reply follows.    *)
(* AIService.sendMessage resolves on every path (see SpecSend), so the     *)
(* catch branch of handleSendMessage is not reached.                       *)
(***************************************************************************)
handleSendMessage(t) ==
    /\ UserAction
    /\ \E i \in 1..Len(activeTabs) : activeTabs[i] = t
    /\ Cardinality(sends) < MaxSends
    /\ nextId + Cardinality(sends) + 1 <= MaxMsgs
    /\ LET userMessage == [id |-> nextId, sender |-> "user"]
       IN  /\ messages' = SetLocalMessages(messages, t,
                              Append(LocalMessages(messages, t), userMessage))
           /\ contextData' = addMessage(contextData, t, userMessage)
           /\ saveToStorage(contextData', <<"send", nextId>>)
           /\ sends' = sends \cup {[id |-> nextId, tabId |-> t]}
    /\ nextId' = nextId + 1
    /\ dirty' = TRUE
    /\ UNCHANGED <<mountPc, loadRead, activeTabs, syncs, resetPc>>
    /\ UNCHANGED outsideLab

\* the continuation after `await AIService.sendMessage(...)`
handleSendMessageReply(s) ==
    /\ s \in sends
    /\ WriteDone(<<"send", s.id>>)
    /\ LET aiMessage == [id |-> nextId, sender |-> "ai"]
       IN  /\ messages' = SetLocalMessages(messages, s.tabId,
                              Append(LocalMessages(messages, s.tabId), aiMessage))
           /\ contextData' = addMessage(contextData, s.tabId, aiMessage)
           /\ saveToStorage(contextData', NoOwner)
    /\ sends' = sends \ {s}
    /\ nextId' = nextId + 1
    /\ dirty' = TRUE
    /\ UNCHANGED <<mountPc, loadRead, activeTabs, syncs, resetPc, userActions>>
    /\ UNCHANGED outsideLab

(***************************************************************************)
(* syncMessagesWithContext, run by the effect on [messages, ...]: it walks *)
(* the snapshot of messages it was created with, and awaits the save of    *)
(* one tab before it looks at the next.                                    *)
(***************************************************************************)
\* first entry at or after i whose tab has a chat context, 0 when none
NextSynced(snap, chats, i) ==
    LET c == {j \in i..Len(snap) : Has(chats, snap[j].tabId)}
    IN  IF c = {} THEN 0 ELSE CHOOSE j \in c : \A k \in c : j <= k

SyncStep(slot, snap, i) ==
    LET j == NextSynced(snap, contextData, i)
    IN  IF j = 0
        THEN /\ syncs' = [syncs EXCEPT ![slot] = NoSync]
             /\ UNCHANGED storeVars
        ELSE /\ contextData' = updateChatContext(contextData, snap[j].tabId,
                                   [messages |-> snap[j].msgs])
             /\ saveToStorage(contextData', <<"sync", slot>>)
             /\ syncs' = [syncs EXCEPT ![slot] =
                             IF j < Len(snap) THEN [snap |-> snap, idx |-> j + 1] ELSE NoSync]

syncMessagesWithContext ==
    /\ dirty
    /\ dirty' = FALSE
    /\ IF Len(messages) > 0
       THEN \E slot \in 1..MaxSyncs :
               /\ syncs[slot] = NoSync
               /\ \A k \in 1..(slot - 1) : syncs[k] # NoSync
               /\ SyncStep(slot, messages, 1)
       ELSE UNCHANGED storeVars /\ UNCHANGED syncs
    /\ UNCHANGED <<mountPc, loadRead, activeTabs, messages, sends, resetPc, nextId, userActions>>
    /\ UNCHANGED outsideLab

syncContinue(slot) ==
    /\ syncs[slot] # NoSync
    /\ WriteDone(<<"sync", slot>>)
    /\ SyncStep(slot, syncs[slot].snap, syncs[slot].idx)
    /\ UNCHANGED <<mountPc, loadRead, activeTabs, messages, dirty, sends, resetPc, nextId, userActions>>
    /\ UNCHANGED outsideLab

(***************************************************************************)
(* pollForNewMessages (30 s interval, re-armed whenever messages changes). *)
(***************************************************************************)
pollForNewMessages ==
    /\ Has(contextData, CentralTabId)
    /\ LET centralContext == getChatContext(contextData, CentralTabId)
           currentMessages == LocalMessages(messages, CentralTabId)
       IN  /\ Len(centralContext.messages) > 0
           /\ Len(centralContext.messages) > Len(currentMessages)
           /\ messages' = SetLocalMessages(messages, CentralTabId,
                              currentMessages \o
                              SubSeq(centralContext.messages, Len(currentMessages) + 1,
                                     Len(centralContext.messages)))
    /\ dirty' = TRUE
    /\ UNCHANGED storeVars
    /\ UNCHANGED <<mountPc, loadRead, activeTabs, syncs, sends, resetPc, nextId, userActions>>
    /\ UNCHANGED outsideLab

(***************************************************************************)
(* resetAllChats: clearAllContext, then (after the awaits) the local state.*)
(***************************************************************************)
resetAllChats ==
    /\ UserAction
    /\ resetPc = Idle
    /\ contextData' = clearAllContext
    /\ saveToStorage(contextData', <<"reset", 0>>)
    /\ resetPc' = "clearing"
    /\ UNCHANGED <<mountPc, loadRead, activeTabs, messages, dirty, syncs, sends, nextId>>
    /\ UNCHANGED outsideLab

resetAllChatsFinish ==
    /\ resetPc = "clearing"
    /\ WriteDone(<<"reset", 0>>)
    /\ activeTabs' = <<>>
    /\ messages' = <<>>
    /\ dirty' = TRUE
    /\ resetPc' = Idle
    /\ UNCHANGED storeVars
    /\ UNCHANGED <<mountPc, loadRead, syncs, sends, nextId, userActions>>
    /\ UNCHANGED outsideLab

LabInit ==
    /\ contextData = <<>>
    /\ disk \in PriorBlobs
    /\ loadRead = disk
    /\ pendingWrites = <<>>
    /\ writeFailed = FALSE
    /\ storeWritten = FALSE
    /\ mountPc = "loading"
    /\ activeTabs = <<>>
    /\ messages = <<>>
    /\ dirty = FALSE
    /\ syncs = [slot \in 1..MaxSyncs |-> NoSync]
    /\ sends = {}
    /\ resetPc = Idle
    /\ nextId = 2
    /\ userActions = 0

LabNext ==
    \/ StorageCommit
    \/ StorageFail
    \/ loadFromStorage
    \/ loadFromStorageFails
    \/ restoreMessagesFromContext
    \/ handleChatClick
    \/ handleCentralChatClick
    \/ \E t \in TabIds : handleUpdateTabs(t)
    \/ \E t \in TabIds : handleSendMessage(t)
    \/ \E s \in sends : handleSendMessageReply(s)
    \/ syncMessagesWithContext
    \/ \E slot \in 1..MaxSyncs : syncContinue(slot)
    \/ pollForNewMessages
    \/ resetAllChats
    \/ resetAllChatsFinish

(***************************************************************************)
(* Conversation Stage Tracker (aiService.ts).                              *)
(*                                                                         *)
(* A message text is a sequence of tokens.  content.toLowerCase()          *)
(* .includes(k) holds when the words of k occur, in order, inside          *)
(* consecutive lower-cased tokens.  Percentages are hundredths of a        *)
(* percent (66.67 is 6667) so that the weekday table stays integral.       *)
(***************************************************************************)
toLowerCase(tok) ==
    CASE tok = "Frustration" -> "frustration"
      [] tok = "I" -> "i"
      [] tok = "Finished" -> "finished"
      [] tok = "Next" -> "next"
      [] tok = "It" -> "it"
      [] tok = "You" -> "you"
      [] tok = "Tell" -> "tell"
      [] tok = "**INPUTS:**" -> "**inputs:**"
      [] tok = "OUTPUTS:" -> "outputs:"
      [] tok = "Inputs:" -> "inputs:"
      [] tok = "Sleep" -> "sleep"
      [] tok = "Weekly" -> "weekly"
      [] tok = "Complete" -> "complete"
      [] tok = "January" -> "january"
      [] tok = "Daily" -> "daily"
      [] tok = "Great" -> "great"
      [] tok = "[*]Nutrition" -> "[*]nutrition"
      [] tok = "Nutrition" -> "nutrition"
      [] tok = "My" -> "my"
      [] tok = "Build" -> "build"
      [] OTHER -> tok

\* the keywords that occur as substrings of a lower-case token
SubstringsOf(tok) ==
    CASE tok = "goals" -> {"goals", "goal"}
      [] tok = "costs" -> {"costs", "cost"}
      [] tok = "splendid" -> {"splendid", "did"}
      [] tok = "didn't" -> {"didn't", "did"}
      [] tok = "**inputs:**" -> {"inputs:", "input"}
      [] tok = "outputs:" -> {"outputs:", "output"}
      [] tok = "goals:" -> {"goals:", "goal"}
      [] tok = "[*]nutrition" -> {"nutrition"}
      [] tok = "months" -> {"months", "month"}
      [] tok = "I'm experiencing some technical difficulties right now. Please try again in a moment."
            -> {"difficult"}
      [] OTHER -> {tok}

WordsOf(k) ==
    CASE k = "can do" -> <<"can", "do">>
      [] k = "figured out" -> <<"figured", "out">>
      [] k = "plan to" -> <<"plan", "to">>
      [] k = "every day" -> <<"every", "day">>
      [] k = "health inputs:" -> <<"health", "inputs:">>
      [] k = "strength inputs:" -> <<"strength", "inputs:">>
      [] k = "i commit to this vision" -> <<"i", "commit", "to", "this", "vision">>
      [] OTHER -> <<k>>

includes(content, k) ==
    LET w == WordsOf(k)
    IN  \E i \in 1..(Len(content) - Len(w) + 1) :
           \A j \in 1..Len(w) : w[j] \in SubstringsOf(toLowerCase(content[i + j - 1]))

\* content.toLowerCase().includes(k1) || content.toLowerCase().includes(k2) || ...
includesAny(content, ks) ==
    \/ \E i \in 1..Len(content) : SubstringsOf(toLowerCase(content[i])) \cap ks # {}
    \/ \E k \in {x \in ks : Len(WordsOf(x)) > 1} : includes(content, k)

\* variant: only the latest user message is examined
someUserMessageLast(conversationHistory, ks) ==
    \E i \in 1..Len(conversationHistory) :
       /\ conversationHistory[i].role = "user"
       /\ \A j \in (i + 1)..Len(conversationHistory) : conversationHistory[j].role # "user"
       /\ includesAny(conversationHistory[i].content, ks)

\* userMessages.some(msg => msg.content.toLowerCase().includes(k1) || ...)
someUserMessage(conversationHistory, ks) ==
    \E i \in 1..Len(conversationHistory) :
       /\ conversationHistory[i].role = "user"
       /\ includesAny(conversationHistory[i].content, ks)

userMessageCount(conversationHistory) ==
    Cardinality({i \in 1..Len(conversationHistory) : conversationHistory[i].role = "user"})

PainPointWords == {"frustration", "problem", "struggle"}
ConstraintWords == {"time", "money", "health", "skill"}
TimeHorizonWords == {"month", "year", "deadline", "goal"}
CostWords == {"cost", "losing", "affecting"}
ConfidenceWords == {"confident", "can do", "believe"}
InputWords == {"input", "skill", "habit"}
OutputWords == {"output", "achieve", "become"}
SupportWords == {"support", "accountability", "coping"}
StrategyWords == {"strategy", "plan", "system"}
VisionFileWords == {"vision", "commit", "ready"}
VisionElementWords == {"input", "output", "habit", "goal"}

Min(a, b) == IF a <= b THEN a ELSE b

\* Phase 1: Understanding (0-20%)
phase1(hasPainPoints, hasConstraints, hasTimeHorizon) ==
    IF hasPainPoints /\ hasConstraints /\ hasTimeHorizon THEN 2000
    ELSE IF hasPainPoints /\ hasConstraints THEN 1500
    ELSE IF hasPainPoints THEN 1000
    ELSE 0

phase2NoGate(progress, hasCosts, hasConfidence) ==
    IF hasCosts /\ hasConfidence THEN 4000
    ELSE IF hasCosts THEN 3000
    ELSE progress

\* Phase 2: Weight + Self-efficacy (20-40%)
phase2(progress, hasCosts, hasConfidence) ==
    IF hasCosts /\ hasConfidence /\ progress >= 2000 THEN 4000
    ELSE IF hasCosts /\ progress >= 2000 THEN 3000
    ELSE progress

\* Phase 3: Vision (40-60%)
phase3(progress, hasInputs, hasOutputs) ==
    IF hasInputs /\ hasOutputs /\ progress >= 4000 THEN 6000
    ELSE IF (hasInputs \/ hasOutputs) /\ progress >= 4000 THEN 5000
    ELSE progress

phase4EitherStarts(progress, hasSupport, hasStrategies) ==
    IF hasSupport /\ hasStrategies /\ progress >= 6000 THEN 8000
    ELSE IF (hasSupport \/ hasStrategies) /\ progress >= 6000 THEN 7000
    ELSE progress

\* Phase 4: Maintenance (60-80%)
phase4(progress, hasSupport, hasStrategies) ==
    IF hasSupport /\ hasStrategies /\ progress >= 6000 THEN 8000
    ELSE IF hasSupport /\ progress >= 6000 THEN 7000
    ELSE progress

\* Phase 5: Integration (80-100%)
phase5(progress, hasVisionFile) ==
    IF hasVisionFile /\ progress >= 8000 THEN 10000
    ELSE IF progress >= 8000 THEN 9000
    ELSE progress

calculateSetupProgress(conversationHistory) ==
    LET hasPainPoints == someUserMessage(conversationHistory, PainPointWords)
        hasConstraints == someUserMessage(conversationHistory, ConstraintWords)
        hasTimeHorizon == someUserMessage(conversationHistory, TimeHorizonWords)
        hasCosts == someUserMessage(conversationHistory, CostWords)
        hasConfidence == someUserMessage(conversationHistory, ConfidenceWords)
        hasInputs == someUserMessage(conversationHistory, InputWords)
        hasOutputs == someUserMessage(conversationHistory, OutputWords)
        hasSupport == someUserMessage(conversationHistory, SupportWords)
        hasStrategies == someUserMessage(conversationHistory, StrategyWords)
        hasVisionFile == someUserMessage(conversationHistory, VisionFileWords)
        p1 == phase1(hasPainPoints, hasConstraints, hasTimeHorizon)
        p2 == phase2(p1, hasCosts, hasConfidence)
        p3 == phase3(p2, hasInputs, hasOutputs)
        p4 == phase4(p3, hasSupport, hasStrategies)
        p5 == phase5(p4, hasVisionFile)
    IN  Min(p5, 10000)

days == <<"Sunday", "Monday", "Tuesday", "Wednesday", "Thursday", "Friday", "Saturday">>

\* days[date.getDay()]
getDayOfWeek(d) == days[d + 1]

executionProgressShifted(dayOfWeek) ==
    CASE dayOfWeek = "Sunday" -> 1667
      [] dayOfWeek = "Monday" -> 3333
      [] dayOfWeek = "Tuesday" -> 3333
      [] dayOfWeek = "Wednesday" -> 5000
      [] dayOfWeek = "Thursday" -> 8333
      [] dayOfWeek = "Friday" -> 10000
      [] OTHER -> 0

\* executionProgress[dayOfWeek] || 0
executionProgress(dayOfWeek) ==
    CASE dayOfWeek = "Sunday" -> 1667
      [] dayOfWeek = "Monday" -> 3333
      [] dayOfWeek = "Tuesday" -> 5000
      [] dayOfWeek = "Wednesday" -> 6667
      [] dayOfWeek = "Thursday" -> 8333
      [] dayOfWeek = "Friday" -> 10000
      [] OTHER -> 0

getCurrentStageNoReview(conversationHistory, d) ==
    LET hasVisionElements == someUserMessage(conversationHistory, VisionElementWords)
    IN  IF ~hasVisionElements \/ userMessageCount(conversationHistory) < 5
        THEN [mainStage |-> "SETUP", progress |-> calculateSetupProgress(conversationHistory)]
        ELSE [mainStage |-> "EXECUTION", progress |-> executionProgress(getDayOfWeek(d))]

getCurrentStage(conversationHistory, d) ==
    LET hasVisionElements == someUserMessage(conversationHistory, VisionElementWords)
    IN  IF ~hasVisionElements \/ userMessageCount(conversationHistory) < 5
        THEN [mainStage |-> "SETUP", progress |-> calculateSetupProgress(conversationHistory)]
        ELSE IF getDayOfWeek(d) = "Saturday"
        THEN [mainStage |-> "REVIEW", progress |-> 0]
        ELSE [mainStage |-> "EXECUTION", progress |-> executionProgress(getDayOfWeek(d))]

prepareStageWithReview(type, enrichedHistory, d) ==
    IF type = "setup"
    THEN getCurrentStage(enrichedHistory, d)
    ELSE IF getDayOfWeek(d) = "Saturday"
    THEN [mainStage |-> "REVIEW", progress |-> 0]
    ELSE [mainStage |-> "EXECUTION", progress |-> 5000]

\* prepareMessageContext: the stage of a send of chat type `type`
prepareStage(type, enrichedHistory, d) ==
    IF type = "setup"
    THEN getCurrentStage(enrichedHistory, d)
    ELSE [mainStage |-> "EXECUTION", progress |-> 5000]

(***************************************************************************)
(* Transcripts: every subsequence of Samples, built message by message.    *)
(***************************************************************************)
Samples ==
    << [role |-> "user", content |-> <<"Frustration", "everywhere">>],
       [role |-> "user", content |-> <<"no", "money">>],
       [role |-> "user", content |-> <<"a", "new", "skill">>],
       [role |-> "user", content |-> <<"my", "goals">>],
       [role |-> "assistant", content |-> <<"your", "problem", "and", "output">>],
       [role |-> "user", content |-> <<"it", "costs", "me">>],
       [role |-> "user", content |-> <<"I", "can", "do", "it">>],
       [role |-> "user", content |-> <<"one", "habit">>],
       [role |-> "user", content |-> <<"achieve", "more">>],
       [role |-> "user", content |-> <<"support">>],
       [role |-> "user", content |-> <<"a", "plan">>],
       [role |-> "user", content |-> <<"I", "commit">>] >>

ChatTypes == {"setup", "central", "category"}
NoStage == [mainStage |-> "none", progress |-> 0]

AppendSample(k) ==
    /\ stagePc = "building"
    /\ k > cursor
    /\ history' = Append(history, Samples[k])
    /\ cursor' = k
    /\ UNCHANGED <<today, stagePc, chatType, currentStage, setupProgress>>
    /\ UNCHANGED outsideStage

\* the stage part of a send: prepareMessageContext, and the setup progress
EvaluateStage(type) ==
    /\ stagePc = "building"
    /\ stagePc' = "evaluated"
    /\ chatType' = type
    /\ currentStage' = prepareStage(type, history, today)
    /\ setupProgress' = calculateSetupProgress(history)
    /\ UNCHANGED <<history, cursor, today>>
    /\ UNCHANGED outsideStage

StageIdle ==
    /\ history = <<>>
    /\ cursor = 0
    /\ today = 0
    /\ stagePc = "idle"
    /\ chatType = "none"
    /\ currentStage = NoStage
    /\ setupProgress = 0

StageInit ==
    /\ history = <<>>
    /\ cursor = 0
    /\ today \in 0..6
    /\ stagePc = "building"
    /\ chatType = "none"
    /\ currentStage = NoStage
    /\ setupProgress = 0

StageNext ==
    \/ \E k \in 1..Len(Samples) : AppendSample(k)
    \/ \E type \in ChatTypes : EvaluateStage(type)

LabIdle ==
    /\ contextData = <<>>
    /\ disk = NoBlob
    /\ loadRead = NoBlob
    /\ pendingWrites = <<>>
    /\ writeFailed = FALSE
    /\ storeWritten = FALSE
    /\ mountPc = "unmounted"
    /\ activeTabs = <<>>
    /\ messages = <<>>
    /\ dirty = FALSE
    /\ syncs = [slot \in 1..MaxSyncs |-> NoSync]
    /\ sends = {}
    /\ resetPc = Idle
    /\ nextId = 2
    /\ userActions = 0

(***************************************************************************)
(* AIService.sendMessage (aiService.ts).                                   *)
(*                                                                         *)
(* Texts are token sequences; "." is a token of its own, and a fixed       *)
(* fallback text is a single token.  A date is the weekday index of the    *)
(* local clock, which stays within one day.                                *)
(***************************************************************************)
AuthText == <<"I'm having trouble connecting to my AI service. Please check your viaRAG.ai API configuration.">>
NetworkText == <<"I'm having trouble connecting right now. Please check your internet connection and try again.">>
TechnicalText == <<"I'm experiencing some technical difficulties right now. Please try again in a moment.">>
NotConfiguredText == <<"I'm sorry, but I'm not properly configured yet. Please set up your viaRAG.ai API key.">>

NoErrorField == "undefined"
NoResult == [response |-> <<>>, error |-> NoErrorField]
NoError == [status |-> 0, code |-> "undefined", message |-> "undefined"]
NoVisionFile == [commitmentConfirmed |-> FALSE, history |-> <<>>, aiResponse |-> <<>>]

\* what viaRAG.directQuery can reject with
GatewayErrors ==
    { [status |-> 401, code |-> "undefined", message |-> "Unauthorized"],
      [status |-> 0, code |-> "ECONNABORTED", message |-> "timeout of 30000ms exceeded"],
      [status |-> 0, code |-> "NETWORK_ERROR", message |-> "Network Error"],
      [status |-> 500, code |-> "undefined", message |-> "Internal Server Error"],
      [status |-> 0, code |-> "undefined", message |-> ""] }

\* response.response of a resolved directQuery; <<>> is the empty response
GatewayResponses == { <<"Tell", "me", "more">>, <<>> }

NoResponseError == [status |-> 0, code |-> "undefined", message |-> "No response from AI service"]
VisionStorageError == [status |-> 0, code |-> "undefined", message |-> "Failed to load vision file"]

createErrorResponse(error, response) == [response |-> response, error |-> error]

handleSendMessageErrorRaw(error) ==
    IF error.status = 401
    THEN createErrorResponse("Authentication failed", AuthText)
    ELSE IF error.code = "ECONNABORTED" \/ error.code = "NETWORK_ERROR"
    THEN createErrorResponse("Network error", NetworkText)
    ELSE createErrorResponse(IF error.message # "" THEN error.message ELSE "Unknown error",
                             <<error.message>>)

handleSendMessageError(error) ==
    IF error.status = 401
    THEN createErrorResponse("Authentication failed", AuthText)
    ELSE IF error.code = "ECONNABORTED" \/ error.code = "NETWORK_ERROR"
    THEN createErrorResponse("Network error", NetworkText)
    ELSE createErrorResponse(IF error.message # "" THEN error.message ELSE "Unknown error",
                             TechnicalText)

\* conversationHistory.map(msg => ({...msg, timestamp, dayOfWeek}))
enrichConversationHistory(conversationHistory, d) ==
    [i \in 1..Len(conversationHistory) |->
        [role |-> conversationHistory[i].role,
         content |-> conversationHistory[i].content,
         dayOfWeek |-> getDayOfWeek(d)]]

\* date.toISOString().split('T')[0]
getDateKey(d) == d

(***************************************************************************)
(* The regular expressions of extractDailyInsights over tokens.            *)
(*   /(?:k1|k2)\s+([^.]+)/i : the leftmost keyword that ends a token and   *)
(*   is followed by a token other than "."; the capture runs to the next   *)
(*   "." or to the end.  Captures start and end at a word, so trim()       *)
(*   leaves them as they are.                                              *)
(*   /(?:k1|k2)[^.]*(?:c1|c2)\s+([^.]+)/i : the keyword anywhere in a      *)
(*   token, then the last connector of the same sentence that ends a       *)
(*   token and is followed by a token other than ".".                      *)
(***************************************************************************)
NoMatch == <<>>

\* the keywords a lower-case token ends with
SuffixesOf(tok) ==
    CASE tok = "splendid" -> {"splendid", "did"}
      [] OTHER -> {tok}

\* index of the first "." after token i, or Len + 1
SentenceEnd(text, i) ==
    CHOOSE j \in (i + 1)..(Len(text) + 1) :
        /\ j = Len(text) + 1 \/ text[j] = "."
        /\ \A l \in (i + 1)..(j - 1) : text[l] # "."

\* keyword k matches at token i, followed by white space
KeyAt(text, i, k) ==
    LET w == WordsOf(k)
    IN  /\ i + Len(w) - 1 <= Len(text)
        /\ w[1] \in SuffixesOf(toLowerCase(text[i]))
        /\ \A j \in 2..Len(w) : toLowerCase(text[i + j - 1]) = w[j]

matchAfter(text, ks) ==
    LET ends == [i \in 1..Len(text) |->
                    {i + Len(WordsOf(k)) - 1 : k \in {k \in ks : KeyAt(text, i, k)}}]
        ok(i) == \E e \in ends[i] : e + 1 <= Len(text) /\ text[e + 1] # "."
        starts == {i \in 1..Len(text) : ok(i)}
    IN  IF starts = {} THEN NoMatch
        ELSE LET i == CHOOSE x \in starts : \A y \in starts : x <= y
                 e == CHOOSE x \in ends[i] : x + 1 <= Len(text) /\ text[x + 1] # "."
             IN  SubSeq(text, e + 1, SentenceEnd(text, e) - 1)

matchAfterConnector(text, ks, cs) ==
    LET conn(i) == {c \in (i + 1)..(SentenceEnd(text, i) - 2) :
                       \E k \in cs : k \in SuffixesOf(toLowerCase(text[c]))}
        starts == {i \in 1..Len(text) :
                      /\ text[i] # "."
                      /\ \E k \in ks : k \in SubstringsOf(toLowerCase(text[i]))
                      /\ conn(i) # {}}
    IN  IF starts = {} THEN NoMatch
        ELSE LET i == CHOOSE x \in starts : \A y \in starts : x <= y
                 c == CHOOSE x \in conn(i) : \A y \in conn(i) : y <= x
             IN  SubSeq(text, c + 1, SentenceEnd(text, i) - 1)

\* if (lowerMessage.includes(..) || ..) { m = message.match(re); if (m) list.push(m[1].trim()) }
pushMatch(list, text, ks, captured) ==
    IF includesAny(text, ks) /\ captured # NoMatch THEN Append(list, captured) ELSE list

ActionWords == {"did", "completed", "finished"}
ChallengeWords == {"struggle", "difficult", "hard", "challenge"}
ChallengeConnectors == {"with", "to", "about"}
WinWords == {"success", "achieved", "accomplished", "good"}
WinConnectors == {"with", "at", "in"}
InsightWords == {"learned", "realized", "discovered", "figured out"}
IntentionWords == {"tomorrow", "next", "plan to", "will"}

extractDailyInsights(text, dailySummary) ==
    [dailySummary EXCEPT
        !.keyActions = pushMatch(@, text, ActionWords, matchAfter(text, ActionWords)),
        !.challenges = pushMatch(@, text, ChallengeWords,
                          matchAfterConnector(text, ChallengeWords, ChallengeConnectors)),
        !.wins = pushMatch(@, text, WinWords,
                          matchAfterConnector(text, WinWords, WinConnectors)),
        !.insights = pushMatch(@, text, InsightWords, matchAfter(text, InsightWords)),
        !.nextDayIntentions = pushMatch(@, text, IntentionWords,
                          matchAfter(text, IntentionWords))]

HasSummary(summaries, dateKey) == \E i \in 1..Len(summaries) : summaries[i].date = dateKey

SummaryOf(summaries, dateKey) ==
    summaries[CHOOSE i \in 1..Len(summaries) : summaries[i].date = dateKey]

NewSummary(dateKey, dayOfWeek) ==
    [date |-> dateKey, dayOfWeek |-> dayOfWeek, keyActions |-> <<>>, challenges |-> <<>>,
     wins |-> <<>>, insights |-> <<>>, nextDayIntentions |-> <<>>]

trackDailyConversation(summaries, text, d) ==
    LET dateKey == getDateKey(d)
        dailySummary == IF HasSummary(summaries, dateKey) THEN SummaryOf(summaries, dateKey)
                        ELSE NewSummary(dateKey, getDayOfWeek(d))
        updated == extractDailyInsights(text, dailySummary)
    IN  IF HasSummary(summaries, dateKey)
        THEN [i \in 1..Len(summaries) |->
                 IF summaries[i].date = dateKey THEN updated ELSE summaries[i]]
        ELSE Append(summaries, updated)

\* enrichedHistory[enrichedHistory.length - 1]?.content || ''
LastContent(enrichedHistory) ==
    IF enrichedHistory = <<>> THEN <<>> ELSE enrichedHistory[Len(enrichedHistory)].content

(***************************************************************************)
(* The callers of sendMessage and what they pass.                          *)
(***************************************************************************)
Callers == {"LabScreen.category", "LabScreen.central", "ChatScreen", "generateGoalSuggestions"}

SendTexts ==
    { <<"I", "finished", "my", "schema", "today", ".", "Next", "week", "more">>,
      <<"I", "didn't", "sleep">>,
      <<"It", "was", "hard", "to", "focus">>,
      <<"i", "commit", "to", "this", "vision">>,
      <<"hello">> }

\* the chatType argument: LabScreen part_004:569-571, ChatScreen theme.ts:1005
ChatTypeOf(c) ==
    CASE c = "LabScreen.category" -> "category"
      [] c = "LabScreen.central" -> "central"
      [] c = "ChatScreen" -> "setup"
      [] OTHER -> "undefined"

\* the conversationHistory argument: LabScreen passes [], ChatScreen its
\* messages as they were before this send, the helpers leave the default []
ConversationHistoryOf(c) == IF c = "ChatScreen" THEN chatMessages ELSE <<>>

DEFAULT_INITIAL_MESSAGE == [role |-> "assistant", content |-> <<"hello">>]

\* a ChatScreen conversation after five earlier sends
EarlierSetupChat ==
    << DEFAULT_INITIAL_MESSAGE,
       Samples[1], [role |-> "assistant", content |-> <<"Tell", "me", "more">>],
       Samples[2], [role |-> "assistant", content |-> <<"Tell", "me", "more">>],
       Samples[4], [role |-> "assistant", content |-> <<"Tell", "me", "more">>],
       Samples[6], [role |-> "assistant", content |-> <<"Tell", "me", "more">>],
       Samples[8], [role |-> "assistant", content |-> <<"You", "finished", "phase", "one", ".">>] >>

sendMessage(c, m) ==
    /\ sendPc = "idle"
    /\ sendsDone < MaxCalls
    /\ caller' = c
    /\ message' = m
    /\ history' = ConversationHistoryOf(c)
    /\ chatType' = ChatTypeOf(c)
    /\ currentStage' = NoStage
    /\ aiResponse' = <<>>
    /\ thrown' = NoError
    /\ IF ~viaRAG
       THEN /\ result' = createErrorResponse("API key not configured", NotConfiguredText)
            /\ sendPc' = "resolved"
       ELSE /\ result' = NoResult
            /\ sendPc' = "prepare"
    /\ UNCHANGED <<viaRAG, dailySummaries, visionFile, chatMessages, sendsDone>>
    /\ UNCHANGED <<cursor, today, stagePc, setupProgress>>
    /\ UNCHANGED outsideSend

prepareMessageContext ==
    /\ sendPc = "prepare"
    /\ LET enrichedHistory == enrichConversationHistory(history, today)
           stage == prepareStage(chatType, enrichedHistory, today)
       IN  /\ currentStage' = stage
           /\ dailySummaries' =
                 IF stage.mainStage = "EXECUTION"
                 THEN trackDailyConversation(dailySummaries, LastContent(enrichedHistory), today)
                 ELSE dailySummaries
    /\ sendPc' = "gateway"
    /\ UNCHANGED <<viaRAG, visionFile, chatMessages, caller, message, aiResponse,
                   thrown, result, sendsDone>>
    /\ UNCHANGED <<history, cursor, today, stagePc, chatType, setupProgress>>
    /\ UNCHANGED outsideSend

\* visionManager.getVisionFile() rejects
prepareMessageContextThrows ==
    /\ sendPc = "prepare"
    /\ thrown' = VisionStorageError
    /\ sendPc' = "catch"
    /\ UNCHANGED <<viaRAG, dailySummaries, visionFile, chatMessages, caller, message,
                   aiResponse, result, sendsDone>>
    /\ UNCHANGED stageVars
    /\ UNCHANGED outsideSend

sendToViaRAG(response) ==
    /\ sendPc = "gateway"
    /\ IF response = <<>>
       THEN /\ thrown' = NoResponseError
            /\ sendPc' = "catch"
            /\ UNCHANGED aiResponse
       ELSE /\ aiResponse' = response
            /\ sendPc' = "vision"
            /\ UNCHANGED thrown
    /\ UNCHANGED <<viaRAG, dailySummaries, visionFile, chatMessages, caller, message,
                   result, sendsDone>>
    /\ UNCHANGED stageVars
    /\ UNCHANGED outsideSend

\* viaRAG.directQuery rejects
sendToViaRAGRejects(error) ==
    /\ sendPc = "gateway"
    /\ thrown' = error
    /\ sendPc' = "catch"
    /\ UNCHANGED <<viaRAG, dailySummaries, visionFile, chatMessages, caller, message,
                   aiResponse, result, sendsDone>>
    /\ UNCHANGED stageVars
    /\ UNCHANGED outsideSend

\* variant: the commitment is taken from any chat
handleVisionFileCreationAnyChat(created) ==
    /\ sendPc = "vision"
    /\ IF includes(message, "i commit to this vision") /\ created
       THEN visionFile' = [commitmentConfirmed |-> TRUE,
                           history |-> enrichConversationHistory(history, today),
                           aiResponse |-> aiResponse]
       ELSE UNCHANGED visionFile
    /\ result' = [response |-> aiResponse, error |-> NoErrorField]
    /\ sendPc' = "resolved"
    /\ UNCHANGED <<viaRAG, dailySummaries, chatMessages, caller, message, aiResponse,
                   thrown, sendsDone>>
    /\ UNCHANGED stageVars
    /\ UNCHANGED outsideSend

\* handleVisionFileCreation, then return { response: aiResponse }
handleVisionFileCreation(created) ==
    /\ sendPc = "vision"
    /\ IF chatType = "setup" /\ includes(message, "i commit to this vision") /\ created
       THEN visionFile' = [commitmentConfirmed |-> TRUE,
                           history |-> enrichConversationHistory(history, today),
                           aiResponse |-> aiResponse]
       ELSE UNCHANGED visionFile
    /\ result' = [response |-> aiResponse, error |-> NoErrorField]
    /\ sendPc' = "resolved"
    /\ UNCHANGED <<viaRAG, dailySummaries, chatMessages, caller, message, aiResponse,
                   thrown, sendsDone>>
    /\ UNCHANGED stageVars
    /\ UNCHANGED outsideSend

\* catch (error) { return this.handleSendMessageError(error) }
sendMessageCatch ==
    /\ sendPc = "catch"
    /\ result' = handleSendMessageError(thrown)
    /\ sendPc' = "resolved"
    /\ UNCHANGED <<viaRAG, dailySummaries, visionFile, chatMessages, caller, message,
                   aiResponse, thrown, sendsDone>>
    /\ UNCHANGED stageVars
    /\ UNCHANGED outsideSend

\* the caller goes on with the resolved AIResponse; the locals of the call are gone
callerContinues ==
    /\ sendPc = "resolved"
    /\ sendPc' = "idle"
    /\ sendsDone' = sendsDone + 1
    /\ chatMessages' =
          IF caller = "ChatScreen"
          THEN chatMessages \o << [role |-> "user", content |-> message],
                                  [role |-> "assistant", content |-> result.response] >>
          ELSE chatMessages
    /\ caller' = "none"
    /\ message' = <<>>
    /\ aiResponse' = <<>>
    /\ thrown' = NoError
    /\ result' = NoResult
    /\ history' = <<>>
    /\ chatType' = "none"
    /\ currentStage' = NoStage
    /\ UNCHANGED <<viaRAG, dailySummaries, visionFile>>
    /\ UNCHANGED <<cursor, today, stagePc, setupProgress>>
    /\ UNCHANGED outsideSend

SendIdle ==
    /\ viaRAG = FALSE
    /\ dailySummaries = <<>>
    /\ visionFile = NoVisionFile
    /\ chatMessages = <<DEFAULT_INITIAL_MESSAGE>>
    /\ sendPc = "unused"
    /\ caller = "none"
    /\ message = <<>>
    /\ aiResponse = <<>>
    /\ thrown = NoError
    /\ result = NoResult
    /\ sendsDone = 0

SendInit ==
    /\ viaRAG \in BOOLEAN
    /\ dailySummaries = <<>>
    /\ visionFile = NoVisionFile
    /\ chatMessages \in {<<DEFAULT_INITIAL_MESSAGE>>, EarlierSetupChat}
    /\ sendPc = "idle"
    /\ caller = "none"
    /\ message = <<>>
    /\ aiResponse = <<>>
    /\ thrown = NoError
    /\ result = NoResult
    /\ sendsDone = 0
    /\ history = <<>>
    /\ cursor = 0
    /\ today \in 0..6
    /\ stagePc = "idle"
    /\ chatType = "none"
    /\ currentStage = NoStage
    /\ setupProgress = 0

SendNext ==
    \/ \E c \in Callers, m \in SendTexts : sendMessage(c, m)
    \/ prepareMessageContext
    \/ prepareMessageContextThrows
    \/ \E response \in GatewayResponses : sendToViaRAG(response)
    \/ \E error \in GatewayErrors : sendToViaRAGRejects(error)
    \/ \E created \in BOOLEAN : handleVisionFileCreation(created)
    \/ sendMessageCatch
    \/ callerContinues

(***************************************************************************)
(* Structured Vision Summary Parser (aiService.ts).                        *)
(*                                                                         *)
(* The AI response is a sequence of lines, a trimmed line a sequence of    *)
(* tokens.  "[*]" stands for the bullet character U+2022; a bullet         *)
(* character is a token of its own ("[*]", "-") or the first character of  *)
(* a token ("[*]Nutrition", "---").  A date is a number of days counted    *)
(* from the moment of the extraction.                                      *)
(***************************************************************************)
MaxLines == 4

\* number of characters of a token
TokenLength(tok) ==
    CASE tok = "implementation" -> 14
      [] tok \in {"**INPUTS:**"} -> 11
      [] tok \in {"[*]Nutrition"} -> 10
      [] tok \in {"Complete", "database", "OUTPUTS:", "practice"} -> 8
      [] tok \in {"January", "project", "nightly", "Inputs:"} -> 7
      [] tok \in {"design", "Weekly", "review", "goals:", "Health"} -> 6
      [] tok \in {"hours", "Sleep", "skill", "Daily", "Great"} -> 5
      [] tok \in {"struggle"} -> 8
      [] tok \in {"confident", "routine"} -> 7
      [] tok \in {"family", "months"} -> 6
      [] tok \in {"sleep", "helps", "Build"} -> 5
      [] tok \in {"work", "plan", "with"} -> 4
      [] tok \in {"out"} -> 3
      [] tok \in {"My", "am", "of", "10", "12"} -> 2
      [] tok \in {"the", "and", "---", "==="} -> 3
      [] tok \in {"by", "15", "--"} -> 2
      [] tok = "\n" -> -1
      [] OTHER -> 1

RECURSIVE TextLength(_)
\* text.length of tokens joined by single spaces (a line break stands between
\* two such spaces and counts for one character)
TextLength(text) ==
    IF text = <<>> THEN 0
    ELSE IF Len(text) = 1 THEN TokenLength(text[1])
    ELSE TokenLength(text[1]) + 1 + TextLength(Tail(text))

\* text.substring(0, 50) + (text.length > 50 ? '...' : '')
Title(text) == IF TextLength(text) > 50 THEN <<"substring(0, 50)", text, "...">> ELSE text

\* trimmedLine.startsWith(bullet) || trimmedLine.startsWith('-')
startsWithBullet(line) == line # <<>> /\ line[1] \in {"[*]", "-", "[*]Nutrition", "---", "--"}

\* trimmedLine.startsWith('---') || trimmedLine.startsWith('===')
startsWithRule(line) == line # <<>> /\ line[1] \in {"---", "==="}

\* tok.substring(1)
AfterFirstChar(tok) ==
    CASE tok = "[*]Nutrition" -> "Nutrition"
      [] tok = "---" -> "--"
      [] tok = "--" -> "-"
      [] OTHER -> ""

\* trimmedLine.substring(1).trim()
BulletText(line) ==
    IF AfterFirstChar(line[1]) = "" THEN Tail(line)
    ELSE <<AfterFirstChar(line[1])>> \o Tail(line)

InputHeaders == {"inputs:", "health inputs:", "strength inputs:"}
OutputHeaders == {"outputs:", "goals:", "targets:"}

HabitWords == {"daily", "every day", "routine", "habit", "practice", "exercise"}
MetricWords == {"measure", "track", "complete", "achieve", "finish", "improve"}

extractHabitsFromSentence(sentence) ==
    IF includesAny(sentence, HabitWords) THEN <<sentence>> ELSE <<>>

extractMetricsFromSentence(sentence) ==
    IF includesAny(sentence, MetricWords) THEN <<sentence>> ELSE <<>>

StructuredInput(n, inputText) ==
    [id |-> <<"input", n>>,
     title |-> Title(inputText),
     type |-> IF includesAny(inputText, {"sleep", "nutrition", "exercise"})
              THEN "health" ELSE "strength",
     description |-> inputText,
     dailyHabits |-> extractHabitsFromSentence(inputText),
     priority |-> 1]

StructuredOutputFirstId(n, outputText) ==
    [id |-> <<"output", 1>>,
     title |-> Title(outputText),
     description |-> outputText,
     targetDate |-> 30,
     successMetrics |-> extractMetricsFromSentence(outputText),
     priority |-> 1]

StructuredOutput(n, outputText) ==
    [id |-> <<"output", n>>,
     title |-> Title(outputText),
     description |-> outputText,
     targetDate |-> 30,
     successMetrics |-> extractMetricsFromSentence(outputText),
     priority |-> 1]

\* one turn of the loop over the lines
StructuredStep(acc, line) ==
    IF includesAny(line, InputHeaders) THEN [acc EXCEPT !.currentSection = "inputs"]
    ELSE IF includesAny(line, OutputHeaders) THEN [acc EXCEPT !.currentSection = "outputs"]
    ELSE IF line = <<>> \/ startsWithRule(line) THEN acc
    ELSE IF startsWithBullet(line) /\ BulletText(line) # <<>>
    THEN IF acc.currentSection = "inputs"
         THEN [acc EXCEPT !.inputs = Append(@, StructuredInput(Len(@) + 1, BulletText(line)))]
         ELSE IF acc.currentSection = "outputs"
         THEN [acc EXCEPT !.outputs = Append(@, StructuredOutput(Len(@) + 1, BulletText(line)))]
         ELSE acc
    ELSE acc

RECURSIVE StructuredLoop(_, _)
StructuredLoop(acc, lines) ==
    IF lines = <<>> THEN acc
    ELSE StructuredLoop(StructuredStep(acc, Head(lines)), Tail(lines))

extractStructuredVisionSummary(lines) ==
    LET done == StructuredLoop([currentSection |-> "", inputs |-> <<>>, outputs |-> <<>>], lines)
    IN  [inputs |-> done.inputs, outputs |-> done.outputs]

(***************************************************************************)
(* Keyword scanning of the whole transcript (extract...FromText).          *)
(* "." is a token; text.split(/[.!?]+/) yields the runs of tokens between  *)
(* punctuation tokens, and a run without tokens matches no keyword.        *)
(***************************************************************************)
Punctuation == {".", "!", "?"}

\* parts.join(' ')
RECURSIVE JoinTexts(_)
JoinTexts(parts) == IF parts = <<>> THEN <<>> ELSE Head(parts) \o JoinTexts(Tail(parts))

\* lines.join('\n'): the text that aiResponse.split('\n') came from
RECURSIVE JoinLines(_)
JoinLines(lines) ==
    IF lines = <<>> THEN <<>>
    ELSE IF Len(lines) = 1 THEN lines[1]
    ELSE lines[1] \o <<"\n">> \o JoinLines(Tail(lines))

ContentsOf(conversationHistory, role) ==
    LET picked == SelectSeq(conversationHistory, LAMBDA msg : msg.role = role)
    IN  JoinTexts([i \in 1..Len(picked) |-> picked[i].content])

RECURSIVE trim(_)
\* sentence.trim()
trim(text) ==
    IF text = <<>> THEN text
    ELSE IF Head(text) = "\n" THEN trim(Tail(text))
    ELSE IF text[Len(text)] = "\n" THEN trim(SubSeq(text, 1, Len(text) - 1))
    ELSE text

RECURSIVE SplitSentences(_, _)
\* text.split(/[.!?]+/), each sentence with the number of white-space
\* characters in front of it
SplitSentences(text, lead) ==
    IF text = <<>> THEN <<>>
    ELSE IF Head(text) \in Punctuation THEN SplitSentences(Tail(text), 1)
    ELSE LET stops == {i \in 1..Len(text) : text[i] \in Punctuation}
             n == IF stops = {} THEN Len(text)
                  ELSE (CHOOSE i \in stops : \A j \in stops : i <= j) - 1
         IN  <<[tokens |-> SubSeq(text, 1, n), lead |-> lead]>>
             \o SplitSentences(SubSeq(text, n + 1, Len(text)), 1)

\* sentence.trim().substring(0, 50) + (sentence.length > 50 ? '...' : '')
SentenceTitle(sentence) ==
    IF TextLength(sentence.tokens) + sentence.lead > 50
    THEN IF TextLength(trim(sentence.tokens)) > 50
         THEN <<"substring(0, 50)", trim(sentence.tokens), "...">>
         ELSE trim(sentence.tokens) \o <<"...">>
    ELSE trim(sentence.tokens)

HealthKeywords == {"sleep", "nutrition", "exercise", "hydration", "rest", "wellness",
                   "health", "meditation", "stress"}
StrengthKeywords == {"skill", "training", "learning", "practice", "study", "work",
                     "career", "education", "development"}
GoalKeywords == {"achieve", "complete", "finish", "build", "create", "develop", "improve",
                 "learn", "master", "goal", "target"}
PainKeywords == {"struggle", "problem", "difficulty", "challenge", "issue", "pain",
                 "frustration", "stress", "worry", "anxiety"}
ConstraintKeywords == {"time", "money", "budget", "schedule", "work", "family", "health",
                       "skill", "knowledge", "energy"}
SupportKeywords == {"family", "friend", "colleague", "mentor", "coach", "therapist",
                    "group", "community"}
StrategyKeywords == {"plan", "strategy", "technique", "method", "approach", "system",
                     "routine", "habit"}

ScannedInput(kind, n, sentence) ==
    [id |-> <<kind, "input", n>>,
     title |-> SentenceTitle(sentence),
     type |-> kind,
     description |-> trim(sentence.tokens),
     dailyHabits |-> extractHabitsFromSentence(sentence.tokens),
     priority |-> 1]

RECURSIVE ScanInputs(_, _)
ScanInputs(inputs, sentences) ==
    IF sentences = <<>> THEN inputs
    ELSE LET sentence == Head(sentences)
             withHealth ==
                 IF includesAny(sentence.tokens, HealthKeywords)
                 THEN Append(inputs, ScannedInput("health", Len(inputs) + 1, sentence))
                 ELSE inputs
             withStrength ==
                 IF includesAny(sentence.tokens, StrengthKeywords)
                 THEN Append(withHealth, ScannedInput("strength", Len(withHealth) + 1, sentence))
                 ELSE withHealth
         IN  ScanInputs(withStrength, Tail(sentences))

extractInputsFromText(text) == ScanInputs(<<>>, SplitSentences(text, 0))

RECURSIVE ScanOutputs(_, _)
ScanOutputs(outputs, sentences) ==
    IF sentences = <<>> THEN outputs
    ELSE LET sentence == Head(sentences)
         IN  ScanOutputs(
                 IF includesAny(sentence.tokens, GoalKeywords)
                 THEN Append(outputs,
                         [id |-> <<"output", Len(outputs) + 1>>,
                          title |-> SentenceTitle(sentence),
                          description |-> trim(sentence.tokens),
                          targetDate |-> 30,
                          successMetrics |-> extractMetricsFromSentence(sentence.tokens),
                          priority |-> 1])
                 ELSE outputs,
                 Tail(sentences))

extractOutputsFromText(text) == ScanOutputs(<<>>, SplitSentences(text, 0))

\* the trimmed sentences of userText that hold one of the keywords
SentencesWith(userText, keywords) ==
    LET sentences == SplitSentences(userText, 0)
        hits == SelectSeq(sentences, LAMBDA s : includesAny(s.tokens, keywords))
    IN  [i \in 1..Len(hits) |-> trim(hits[i].tokens)]

extractPainPointsFromText(userText) == SentencesWith(userText, PainKeywords)
extractConstraintsFromText(userText) == SentencesWith(userText, ConstraintKeywords)
extractSupportNetworkFromText(userText) == SentencesWith(userText, SupportKeywords)
extractCopingStrategiesFromText(userText) == SentencesWith(userText, StrategyKeywords)

\* parseInt(tok, 10) of the tokens made of digits
Digits == {"3", "8", "10", "12", "15"}

parseInt(tok) ==
    CASE tok = "3" -> 3
      [] tok = "8" -> 8
      [] tok = "10" -> 10
      [] tok = "12" -> 12
      [] tok = "15" -> 15

\* the first index of text at which the tokens of one of the patterns stand
FirstAt(text, patterns) ==
    LET at(i) == \E p \in patterns :
                    /\ i + Len(p) - 1 <= Len(text)
                    /\ \A j \in 1..Len(p) : toLowerCase(text[i + j - 1]) \in p[j]
        hits == {i \in 1..Len(text) : at(i)}
    IN  IF hits = {} THEN 0 ELSE CHOOSE i \in hits : \A j \in hits : i <= j

\* /(\d+)\s*(week|month|year)s?/i
HorizonUnits == {"week", "weeks", "month", "months", "year", "years"}

\* the patterns are tried in order; the whole match is returned
extractTimeHorizonFromText(userText) ==
    LET number == FirstAt(userText, {<<Digits, HorizonUnits>>})
        term == FirstAt(userText, {<<{"short", "long"}, {"term"}>>})
        word == FirstAt(userText, {<<{"immediate", "future", "long-term"}>>})
    IN  IF number # 0 THEN SubSeq(userText, number, number + 1)
        ELSE IF term # 0 THEN SubSeq(userText, term, term + 1)
        ELSE IF word # 0 THEN <<userText[word]>>
        ELSE <<"3", "months">>

Max(a, b) == IF a >= b THEN a ELSE b

ConfidentWords == {"confident", "sure", "certain", "ready", "motivated"}
UncertainWords == {"unsure", "doubt", "worry", "anxious", "nervous"}

extractConfidenceLevelFromText(userText) ==
    LET outOf == FirstAt(userText, {<<Digits, {"out"}, {"of"}, {"10"}>>})
        level == FirstAt(userText, {<<{"confidence"}, {"level"}, Digits>>})
        confidentCount == Cardinality({w \in ConfidentWords : includes(userText, w)})
        uncertainCount == Cardinality({w \in UncertainWords : includes(userText, w)})
    IN  IF outOf # 0 THEN Max(1, Min(10, parseInt(userText[outOf])))
        ELSE IF level # 0 THEN Max(1, Min(10, parseInt(userText[level + 2])))
        ELSE IF confidentCount > uncertainCount THEN 7
        ELSE IF uncertainCount > confidentCount THEN 4
        ELSE 5

\* variant: the outputs fall back only when the structured inputs are missing too
extractVisionDataInputsDecide(conversationHistory, lines) ==
    LET summary == extractStructuredVisionSummary(lines)
        allUserText == ContentsOf(conversationHistory, "user")
        allAssistantText == ContentsOf(conversationHistory, "assistant")
        allText == allUserText \o allAssistantText \o JoinLines(lines)
    IN  [inputs |-> IF Len(summary.inputs) > 0 THEN summary.inputs
                    ELSE extractInputsFromText(allText),
         outputs |-> IF Len(summary.inputs) > 0 THEN summary.outputs
                     ELSE extractOutputsFromText(allText),
         painPoints |-> extractPainPointsFromText(allUserText),
         constraints |-> extractConstraintsFromText(allUserText),
         timeHorizon |-> extractTimeHorizonFromText(allUserText),
         confidenceLevel |-> extractConfidenceLevelFromText(allUserText),
         supportNetwork |-> extractSupportNetworkFromText(allUserText),
         copingStrategies |-> extractCopingStrategiesFromText(allUserText)]

extractVisionDataFromConversation(conversationHistory, lines) ==
    LET summary == extractStructuredVisionSummary(lines)
        allUserText == ContentsOf(conversationHistory, "user")
        allAssistantText == ContentsOf(conversationHistory, "assistant")
        allText == allUserText \o allAssistantText \o JoinLines(lines)
    IN  [inputs |-> IF Len(summary.inputs) > 0 THEN summary.inputs
                    ELSE extractInputsFromText(allText),
         outputs |-> IF Len(summary.outputs) > 0 THEN summary.outputs
                     ELSE extractOutputsFromText(allText),
         painPoints |-> extractPainPointsFromText(allUserText),
         constraints |-> extractConstraintsFromText(allUserText),
         timeHorizon |-> extractTimeHorizonFromText(allUserText),
         confidenceLevel |-> extractConfidenceLevelFromText(allUserText),
         supportNetwork |-> extractSupportNetworkFromText(allUserText),
         copingStrategies |-> extractCopingStrategiesFromText(allUserText)]

(***************************************************************************)
(* AI responses: every sequence of at most MaxLines of these lines.        *)
(***************************************************************************)
LineSamples ==
    << <<"**INPUTS:**">>,
       <<"[*]", "8", "hours", "Sleep", "nightly">>,
       <<"-", "Weekly", "skill", "practice">>,
       <<"OUTPUTS:">>,
       <<"[*]", "Complete", "the", "database", "design", "and", "implementation",
         "project", "by", "January", "15">>,
       <<"---">>,
       <<"-">>,
       <<"-", "Daily", "goals:", "review">>,
       <<"Great", "work">> >>

\* the setup conversations the extraction is applied to
VisionHistories ==
    { << [role |-> "user", content |-> <<"I", "struggle", "with", "sleep", ".",
                                         "My", "family", "helps">>],
         [role |-> "assistant", content |-> <<"Build", "a", "routine", ".">>],
         [role |-> "user", content |-> <<"I", "am", "confident", ".", "3", "months", ".",
                                         "12", "out", "of", "10">>] >> }

NoSummary == [inputs |-> <<>>, outputs |-> <<>>]
NoVisionData == [inputs |-> <<>>, outputs |-> <<>>, painPoints |-> <<>>,
                 constraints |-> <<>>, timeHorizon |-> <<>>, confidenceLevel |-> 0,
                 supportNetwork |-> <<>>, copingStrategies |-> <<>>]

AppendLine(k) ==
    /\ visionPc = "building"
    /\ Len(responseLines) < MaxLines
    /\ responseLines' = Append(responseLines, LineSamples[k])
    /\ UNCHANGED <<visionPc, visionSummary, visionData>>
    /\ UNCHANGED stageVars
    /\ UNCHANGED outsideVision

\* createVisionFileFromConversationHistory: the extraction from the transcript
ExtractVision ==
    /\ visionPc = "building"
    /\ visionPc' = "extracted"
    /\ visionSummary' = extractStructuredVisionSummary(responseLines)
    /\ visionData' = extractVisionDataFromConversation(history, responseLines)
    /\ UNCHANGED responseLines
    /\ UNCHANGED stageVars
    /\ UNCHANGED outsideVision

VisionIdle ==
    /\ responseLines = <<>>
    /\ visionPc = "idle"
    /\ visionSummary = NoSummary
    /\ visionData = NoVisionData

VisionInit ==
    /\ responseLines = <<>>
    /\ visionPc = "building"
    /\ visionSummary = NoSummary
    /\ visionData = NoVisionData
    /\ history \in VisionHistories
    /\ cursor = 0
    /\ today = 0
    /\ stagePc = "idle"
    /\ chatType = "none"
    /\ currentStage = NoStage
    /\ setupProgress = 0

VisionNext ==
    \/ \E k \in 1..Len(LineSamples) : AppendLine(k)
    \/ ExtractVision

(***************************************************************************)
(* SharedContextManager.getCrossChatContext (sharedContext.ts).  The chats *)
(* carry lastUpdated, the value of new Date() at their last write; clock   *)
(* is the millisecond the device clock shows, so two writes within the     *)
(* same millisecond get equal stamps.                                      *)
(***************************************************************************)
MaxCrossMsgs == 7
MaxClock == 2

SecondCategoryTabId == "category-2"
CrossTabIds == TabIds \cup {SecondCategoryTabId}

CrossTitle(t) ==
    CASE t = CentralTabId -> "Central Planning"
      [] t = CategoryTabId -> "Sleep"
      [] OTHER -> "Career"

CrossType(t) == IF t = CentralTabId THEN "central" ELSE "category"

NoOtherChats == << <<"No other chat contexts available.">> >>

\* lastUpdated: new Date() as the last step of updateChatContext / addMessage
Stamp(chats, t, now) ==
    LET c == getChatContext(chats, t)
    IN  Put(chats, [tabId |-> c.tabId, title |-> c.title, type |-> c.type,
                    messages |-> c.messages, lastUpdated |-> now])

\* Array.prototype.sort with (a, b) => b.lastUpdated - a.lastUpdated; the sort
\* is stable, chats with equal stamps keep the order of Object.values
RECURSIVE SortNewestFirst(_)
SortNewestFirst(chats) ==
    IF chats = <<>> THEN <<>>
    ELSE LET rest == SortNewestFirst(Tail(chats))
             c == Head(chats)
             before == SelectSeq(rest, LAMBDA x : x.lastUpdated > c.lastUpdated)
             after == SelectSeq(rest, LAMBDA x : x.lastUpdated <= c.lastUpdated)
         IN  before \o <<c>> \o after

\* variant: list.slice(0, n)
FirstN(list, n) ==
    IF Len(list) <= n THEN list ELSE SubSeq(list, 1, n)

\* list.slice(-n)
LastN(list, n) ==
    IF Len(list) <= n THEN list ELSE SubSeq(list, Len(list) - n + 1, Len(list))

HeaderLine(chat) == <<"===", chat.title, chat.type, "===">>
MessageLine(msg) == <<msg.sender, msg.text>>
EmptyLine == <<>>

\* lines.join('\n') of no line is the empty string, which is one empty line
\* of the text it is put into
JoinedLines(lines) == IF lines = <<>> THEN <<EmptyLine>> ELSE lines

\* `=== ${chat.title} (${chat.type}) ===\n${recentMessages}`
ContextPart(chat) ==
    <<HeaderLine(chat)>> \o
    JoinedLines([i \in 1..Len(LastN(chat.messages, 5)) |->
                    MessageLine(LastN(chat.messages, 5)[i])])

\* contextParts.join('\n\n'), as the lines of the text
RECURSIVE JoinParts(_)
JoinParts(parts) ==
    IF Len(parts) = 1 THEN parts[1]
    ELSE parts[1] \o <<EmptyLine>> \o JoinParts(Tail(parts))

getCrossChatContext(chats, excludeTabId) ==
    LET otherChats ==
            SortNewestFirst(SelectSeq(chats, LAMBDA chat : chat.tabId # excludeTabId))
    IN  IF Len(otherChats) = 0 THEN NoOtherChats
        ELSE JoinParts([i \in 1..Len(otherChats) |-> ContextPart(otherChats[i])])

CrossTotal == 
    LET RECURSIVE Sum(_)
        Sum(i) == IF i = 0 THEN 0 ELSE Len(crossChats[i].messages) + Sum(i - 1)
    IN  Sum(Len(crossChats))

\* handleChatClick / handleCentralHubClick: the context of a newly opened tab
InitializeContext(t) ==
    /\ crossPc = "building"
    /\ ~Has(crossChats, t)
    /\ crossChats' = Stamp(updateChatContext(crossChats, t,
                               [title |-> CrossTitle(t), type |-> CrossType(t),
                                messages |-> <<>>]), t, clock)
    /\ UNCHANGED <<clock, crossPc, excluded, crossContext>>
    /\ UNCHANGED outsideCross

\* handleSendMessage: the user's message and the AI's reply are added in turn
AddCrossMessage(t) ==
    /\ crossPc = "building"
    /\ Has(crossChats, t)
    /\ CrossTotal < MaxCrossMsgs
    /\ LET n == Len(StoredMessages(crossChats, t)) + 1
           msg == [text |-> <<t, n>>, sender |-> IF n % 2 = 1 THEN "user" ELSE "ai"]
       IN  crossChats' = Stamp(addMessage(crossChats, t, msg), t, clock)
    /\ UNCHANGED <<clock, crossPc, excluded, crossContext>>
    /\ UNCHANGED outsideCross

\* syncMessagesWithContext: the tab's messages are written again
SyncCrossMessages(t) ==
    /\ crossPc = "building"
    /\ Has(crossChats, t)
    /\ getChatContext(crossChats, t).lastUpdated # clock
    /\ crossChats' = Stamp(updateChatContext(crossChats, t,
                               [messages |-> StoredMessages(crossChats, t)]), t, clock)
    /\ UNCHANGED <<clock, crossPc, excluded, crossContext>>
    /\ UNCHANGED outsideCross

\* a millisecond passes
ClockTick ==
    /\ crossPc = "building"
    /\ clock < MaxClock
    /\ clock' = clock + 1
    /\ UNCHANGED <<crossChats, crossPc, excluded, crossContext>>
    /\ UNCHANGED outsideCross

\* handleSendMessage on a category tab: getCrossChatContext(tabId)
GetCrossChatContext(t) ==
    /\ crossPc = "building"
    /\ crossPc' = "answered"
    /\ excluded' = t
    /\ crossContext' = getCrossChatContext(crossChats, t)
    /\ UNCHANGED <<crossChats, clock>>
    /\ UNCHANGED outsideCross

CrossIdle ==
    /\ crossChats = <<>>
    /\ clock = 0
    /\ crossPc = "idle"
    /\ excluded = "none"
    /\ crossContext = <<>>

CrossInit ==
    /\ crossChats = <<>>
    /\ clock = 0
    /\ crossPc = "building"
    /\ excluded = "none"
    /\ crossContext = <<>>

CrossNext ==
    \/ \E t \in CrossTabIds : InitializeContext(t)
    \/ \E t \in CrossTabIds : AddCrossMessage(t)
    \/ \E t \in CrossTabIds : SyncCrossMessages(t)
    \/ ClockTick
    \/ \E t \in CrossTabIds : GetCrossChatContext(t)

(***************************************************************************)
(* Progress paths (progressPathManager.ts) and the entry point             *)
(* AIService.createProgressPathForCategory.  Dates are days on the device  *)
(* clock; a Date object and the ISO text JSON.stringify makes of it are    *)
(* told apart by the field kind.                                           *)
(***************************************************************************)
MaxPathCalls == 2
MaxPathClock == 2

NoDate == [kind |-> "undefined", day |-> 0]
DateOf(d) == [kind |-> "Date", day |-> d]
IsoText(date) == [kind |-> "string", day |-> date.day]
NullOutput == [null |-> TRUE]

NoStored == <<"null">>
NoPath == [id |-> "null"]
NoCategory == [id |-> "undefined"]

\* handleAddGoal (LabScreen): a category added by hand has an id, a title, a
\* type and a description; its inputs and outputs are undefined, which the
\* optional chaining of the path generation treats like empty lists
ManualCategory(id, title, type) ==
    [id |-> id, title |-> title, type |-> type, inputs |-> <<>>, outputs |-> <<>>]

\* the categories the category manager holds
Categories ==
    { [id |-> "sleep", title |-> "Sleep", type |-> "input",
       inputs |-> <<[type |-> "health"], [type |-> "strength"]>>, outputs |-> <<>>],
      [id |-> "career", title |-> "Career", type |-> "output",
       inputs |-> <<>>, outputs |-> <<[targetDate |-> DateOf(30)]>>],
      [id |-> "project", title |-> "Project", type |-> "output",
       inputs |-> <<>>,
       outputs |-> <<[targetDate |-> IsoText(DateOf(10))], [targetDate |-> DateOf(43)],
                     [targetDate |-> NoDate]>>],
      [id |-> "exam", title |-> "Exam", type |-> "output",
       inputs |-> <<>>, outputs |-> <<[targetDate |-> DateOf(-3)]>>],
      [id |-> "broken", title |-> "Broken", type |-> "output",
       inputs |-> <<>>, outputs |-> <<NullOutput>>],
      ManualCategory("reading", "Reading", "input") }

CategoryIds == {c.id : c \in Categories}
UnknownCategoryId == "deleted"

getCategoryById(id) ==
    IF id \in CategoryIds THEN CHOOSE c \in Categories : c.id = id ELSE NoCategory

\* Math.ceil(a / b) for b > 0
CeilDiv(a, b) == -((-a) \div b)

\* variant: Math.floor(a / b)
WeeksDiffFloor(maxDeadline, now) == (maxDeadline - now) \div 7

\* Math.ceil((maxDeadline.getTime() - now.getTime()) / (1000 * 60 * 60 * 24 * 7))
WeeksDiff(maxDeadline, now) == CeilDiv(maxDeadline - now, 7)

\* output.targetDate ? new Date(output.targetDate) : new Date()
Deadline(output, now) ==
    IF output.targetDate = NoDate THEN now ELSE output.targetDate.day

\* Math.max(...deadlines.map(d => d.getTime())), new Date() without deadlines
MaxDeadline(category, now) ==
    IF category.outputs = <<>> THEN now
    ELSE LET ds == {Deadline(category.outputs[i], now) : i \in 1..Len(category.outputs)}
         IN  CHOOSE d \in ds : \A e \in ds : e <= d

\* Math.round((week / totalWeeks) * 100)
RoundedPercentage(week, totalWeeks) == (200 * week + totalWeeks) \div (2 * totalWeeks)

generateWeeklyObjectives(category, week, totalWeeks) ==
    IF category.type = "input"
    THEN IF week = 1
         THEN << <<"Establish daily routine for this category">>,
                 <<"Set up tracking system">> >>
         ELSE IF week <= 3
         THEN << <<"Build consistency in daily habits">>,
                 <<"Identify and overcome obstacles">> >>
         ELSE << <<"Maintain established habits">>,
                 <<"Optimize and refine routine">> >>
    ELSE IF week = 1
         THEN << <<"Define specific milestones for this week">>,
                 <<"Set up progress tracking">> >>
         ELSE IF 100 * week <= 50 * totalWeeks
         THEN << <<"Make progress toward", RoundedPercentage(week, totalWeeks), "% of goal">>,
                 <<"Overcome any blockers">> >>
         ELSE << <<"Complete", RoundedPercentage(week, totalWeeks), "% of goal">>,
                 <<"Prepare for final push">> >>

HasInput(category, type) ==
    \E i \in 1..Len(category.inputs) : category.inputs[i].type = type

generateWeeklyActions(category, week, totalWeeks) ==
    IF category.type = "input"
    THEN (IF HasInput(category, "health")
          THEN << <<"Schedule daily time for health activities">>,
                  <<"Prepare environment for success">>,
                  <<"Track daily completion">> >>
          ELSE <<>>)
         \o
         (IF HasInput(category, "strength")
          THEN << <<"Dedicate focused time for skill development">>,
                  <<"Practice and apply new skills">>,
                  <<"Seek feedback and adjust approach">> >>
          ELSE <<>>)
    ELSE << <<"Review weekly objectives">>,
            <<"Break down tasks into daily actions">>,
            <<"Monitor progress and adjust as needed">> >>

\* variant: the criteria also count the events emitted so far
generateSuccessCriteriaCounting(category, week, totalWeeks) ==
    IF category.type = "input"
    THEN << <<"Complete daily activities at least 5 days this week">>,
            <<"Maintain consistent schedule">>,
            <<"Track progress and note improvements", Len(events)>> >>
    ELSE << <<"Achieve weekly objectives">>,
            <<"Make measurable progress toward goals">>,
            <<"Stay on track with timeline", Len(events)>> >>

generateSuccessCriteria(category, week, totalWeeks) ==
    IF category.type = "input"
    THEN << <<"Complete daily activities at least 5 days this week">>,
            <<"Maintain consistent schedule">>,
            <<"Track progress and note improvements">> >>
    ELSE << <<"Achieve weekly objectives">>,
            <<"Make measurable progress toward goals">>,
            <<"Stay on track with timeline">> >>

\* output.targetDate of a null entry is a TypeError
GenerationThrows(category) ==
    \E i \in 1..Len(category.outputs) : category.outputs[i] = NullOutput

\* lines 22-53 of createProgressPathForCategory: the path built at time now
GeneratePath(category, now) ==
    LET totalWeeks == Max(WeeksDiff(MaxDeadline(category, now), now), 4)
    IN  [id |-> <<"progress", category.id>>,
         categoryId |-> category.id,
         weeklyMilestones |->
             [week \in 1..totalWeeks |->
                 [weekNumber |-> week,
                  objectives |-> generateWeeklyObjectives(category, week, totalWeeks),
                  actions |-> generateWeeklyActions(category, week, totalWeeks),
                  successCriteria |-> generateSuccessCriteria(category, week, totalWeeks),
                  completed |-> FALSE,
                  notes |-> <<>>]],
         currentWeek |-> 1,
         totalWeeks |-> totalWeeks,
         createdAt |-> DateOf(now),
         updatedAt |-> DateOf(now)]

\* JSON.stringify(progressPath): the Date fields become ISO text
StringifyPath(path) ==
    <<"json", [path EXCEPT !.createdAt = IsoText(@), !.updatedAt = IsoText(@)]>>

\* JSON.parse(stored)
ParsePath(stored) == IF stored = NoStored THEN NoPath ELSE stored[2]

PathCreated(category, path) ==
    [type |-> "PROGRESS_PATH_CREATED", categoryId |-> category.id, progressPath |-> path]

PathError(category) ==
    [type |-> "PROGRESS_PATH_ERROR", categoryId |-> category.id,
     instructions |-> <<"Please manually create a progress plan for", category.title,
                        ". Break down your goals into weekly milestones and track your progress.">>]

\* a tap on a chat button: AIService.createProgressPathForCategory(categoryId)
\* runs getCategoryById and, for a category it finds, issues the getItem of
\* loadProgressPath
StartCall(id) ==
    /\ Len(pathCalls) < MaxPathCalls
    /\ pathCalls' = Append(pathCalls,
            [categoryId |-> id,
             pc |-> IF getCategoryById(id) = NoCategory THEN "done" ELSE "loading",
             path |-> NoPath, at |-> 0, entered |-> FALSE, saved |-> FALSE,
             emitted |-> <<>>, returned |-> "pending"])
    /\ UNCHANGED <<pathStorage, events, pathClock>>
    /\ UNCHANGED outsidePath

\* the manager's createProgressPathForCategory up to its await of
\* saveProgressPath, or its catch block when the generation throws
EnterCreate(k) ==
    LET category == getCategoryById(pathCalls[k].categoryId)
    IN  IF GenerationThrows(category)
        THEN /\ pathCalls' = [pathCalls EXCEPT ![k].pc = "done", ![k].entered = TRUE,
                                               ![k].emitted = Append(@, PathError(category)),
                                               ![k].returned = NoPath]
             /\ events' = Append(events, PathError(category))
        ELSE /\ pathCalls' = [pathCalls EXCEPT ![k].pc = "saving", ![k].entered = TRUE,
                                               ![k].at = pathClock,
                                               ![k].path = GeneratePath(category, pathClock)]
             /\ UNCHANGED events

\* getItem resolves: an existing path ends the call, none starts the creation
LoadResolves(k) ==
    /\ pathCalls[k].pc = "loading"
    /\ IF ParsePath(pathStorage[pathCalls[k].categoryId]) # NoPath
       THEN /\ pathCalls' = [pathCalls EXCEPT ![k].pc = "done"]
            /\ UNCHANGED events
       ELSE EnterCreate(k)
    /\ UNCHANGED <<pathStorage, pathClock>>
    /\ UNCHANGED outsidePath

\* getItem rejects: loadProgressPath logs and returns null
LoadRejects(k) ==
    /\ pathCalls[k].pc = "loading"
    /\ EnterCreate(k)
    /\ UNCHANGED <<pathStorage, pathClock>>
    /\ UNCHANGED outsidePath

\* setItem resolves; the success event is emitted and the path returned
SaveResolves(k) ==
    /\ pathCalls[k].pc = "saving"
    /\ LET category == getCategoryById(pathCalls[k].categoryId)
           event == PathCreated(category, pathCalls[k].path)
       IN  /\ pathStorage' = [pathStorage EXCEPT ![category.id] =
                                 StringifyPath(pathCalls[k].path)]
           /\ events' = Append(events, event)
           /\ pathCalls' = [pathCalls EXCEPT ![k].pc = "done", ![k].saved = TRUE,
                                             ![k].emitted = Append(@, event),
                                             ![k].returned = pathCalls[k].path]
    /\ UNCHANGED pathClock
    /\ UNCHANGED outsidePath

\* setItem rejects: saveProgressPath logs, its caller goes on as after a save
SaveRejects(k) ==
    /\ pathCalls[k].pc = "saving"
    /\ LET category == getCategoryById(pathCalls[k].categoryId)
           event == PathCreated(category, pathCalls[k].path)
       IN  /\ events' = Append(events, event)
           /\ pathCalls' = [pathCalls EXCEPT ![k].pc = "done",
                                             ![k].emitted = Append(@, event),
                                             ![k].returned = pathCalls[k].path]
    /\ UNCHANGED <<pathStorage, pathClock>>
    /\ UNCHANGED outsidePath

\* the categories whose weekly progress the user ticks off
TrackedCategoryIds == {"project"}

\* updateProgressPath of the stored path with its current week completed
CompleteMilestone(id) ==
    /\ pathStorage[id] # NoStored
    /\ LET path == ParsePath(pathStorage[id])
       IN  /\ ~path.weeklyMilestones[path.currentWeek].completed
           /\ pathStorage' = [pathStorage EXCEPT ![id] =
                StringifyPath([path EXCEPT
                    !.weeklyMilestones[path.currentWeek].completed = TRUE,
                    !.updatedAt = DateOf(pathClock)])]
    /\ UNCHANGED <<pathCalls, events, pathClock>>
    /\ UNCHANGED outsidePath

\* a day passes; no call stays in flight that long
PathClockTick ==
    /\ pathClock < MaxPathClock
    /\ \A k \in 1..Len(pathCalls) : pathCalls[k].pc = "done"
    /\ pathClock' = pathClock + 1
    /\ UNCHANGED <<pathStorage, pathCalls, events>>
    /\ UNCHANGED outsidePath

PathIdle ==
    /\ pathStorage = [id \in CategoryIds |-> NoStored]
    /\ pathCalls = <<>>
    /\ events = <<>>
    /\ pathClock = 0

PathInit ==
    /\ pathStorage = [id \in CategoryIds |-> NoStored]
    /\ pathCalls = <<>>
    /\ events = <<>>
    /\ pathClock = 0

PathNext ==
    \/ \E id \in CategoryIds \cup {UnknownCategoryId} : StartCall(id)
    \/ \E k \in 1..Len(pathCalls) : LoadResolves(k)
    \/ \E k \in 1..Len(pathCalls) : LoadRejects(k)
    \/ \E k \in 1..Len(pathCalls) : SaveResolves(k)
    \/ \E k \in 1..Len(pathCalls) : SaveRejects(k)
    \/ \E id \in TrackedCategoryIds : CompleteMilestone(id)
    \/ PathClockTick

(***************************************************************************)
(* Goal lists in AsyncStorage under `goals_${title}_${type}`, written by   *)
(* the GoalDetailScreen (theme.ts) and by AIService.createGoalsForCategory *)
(* and read by the LabScreen, and LabScreen.resetAllChats over the three   *)
(* stores.  A storage call and the state updates that follow its promise   *)
(* are one step; a rejected call is an outcome of the step.                *)
(***************************************************************************)
MaxGoals == 2
MaxGoalSteps == 5

\* title and type of the categories whose goals are kept
GoalCategories == {<<"Exercise", "input">>, <<"Exercise", "output">>}

\* `goals_${categoryTitle}_${categoryType}`
storageKey(title, type) == <<"goals_", title, "_", type>>

GoalKeys == {storageKey(c[1], c[2]) : c \in GoalCategories}

Corrupt == <<"corrupt">>

\* JSON.stringify(goals): a Date deadline becomes ISO text, an undefined one
\* is left out
StringifyGoal(g) ==
    IF "deadline" \in DOMAIN g
    THEN IF g.deadline = NoDate
         THEN [f \in DOMAIN g \ {"deadline"} |-> g[f]]
         ELSE [g EXCEPT !.deadline = IsoText(@)]
    ELSE g

StringifyGoals(goals) == <<"json", [i \in 1..Len(goals) |-> StringifyGoal(goals[i])]>>

\* JSON.parse(savedGoals); a goal without deadline has it undefined
ParseGoal(g) ==
    IF "deadline" \in DOMAIN g \/ "categoryId" \in DOMAIN g THEN g
    ELSE [f \in DOMAIN g \cup {"deadline"} |-> IF f = "deadline" THEN NoDate ELSE g[f]]

ParseGoals(stored) == [i \in 1..Len(stored[2]) |-> ParseGoal(stored[2][i])]

Unmounted == [pc |-> "unmounted", key |-> <<>>, goals |-> <<>>,
              loadError |-> FALSE, saved |-> FALSE]

NoCounts == [goalCount |-> 0, completedCount |-> 0]
NoRead == [op |-> "none", failed |-> FALSE]

\* the effect on [goals, isLoading]: saveGoals() writes the list unless the
\* setItem rejects, which saveGoals catches and logs
saveGoals(key, goals, resolves) ==
    goalStorage' = IF resolves THEN [goalStorage EXCEPT ![key] = StringifyGoals(goals)]
                   ELSE goalStorage

GoalStep ==
    /\ goalSteps < MaxGoalSteps
    /\ goalSteps' = goalSteps + 1

\* GoalDetailScreen mounts: loadGoals, then the save effect
MountGoalDetail(key, readResolves, writeResolves) ==
    /\ screen.pc = "unmounted"
    /\ LET failed == ~readResolves \/ goalStorage[key] = Corrupt
           goals == IF failed \/ goalStorage[key] = NoStored THEN <<>>
                    ELSE ParseGoals(goalStorage[key])
       IN  /\ screen' = [pc |-> "shown", key |-> key, goals |-> goals,
                         loadError |-> failed, saved |-> writeResolves]
           /\ saveGoals(key, goals, writeResolves)
           /\ readLog' = [op |-> "loadGoals", failed |-> failed]
    /\ resetReported' = "none"
    /\ GoalStep
    /\ UNCHANGED goalCounts
    /\ UNCHANGED <<storeVars, labVars, pathVars>>
    /\ UNCHANGED outsideGoals

\* addGoal, then the save effect
AddGoal(deadline, writeResolves) ==
    /\ screen.pc = "shown"
    /\ Len(screen.goals) < MaxGoals
    /\ LET newGoal == [id |-> <<"now", Len(screen.goals) + 1>>, title |-> "Run",
                       description |-> "", completed |-> FALSE,
                       order |-> Len(screen.goals) + 1, deadline |-> deadline]
           goals == Append(screen.goals, newGoal)
       IN  /\ screen' = [screen EXCEPT !.goals = goals, !.saved = writeResolves]
           /\ saveGoals(screen.key, goals, writeResolves)
    /\ resetReported' = "none"
    /\ GoalStep
    /\ UNCHANGED goalCounts
    /\ readLog' = NoRead
    /\ UNCHANGED <<storeVars, labVars, pathVars>>
    /\ UNCHANGED outsideGoals

\* toggleGoal, then the save effect
ToggleGoal(i, writeResolves) ==
    /\ screen.pc = "shown"
    /\ i \in 1..Len(screen.goals)
    /\ LET goals == [screen.goals EXCEPT ![i].completed = ~@]
       IN  /\ screen' = [screen EXCEPT !.goals = goals, !.saved = writeResolves]
           /\ saveGoals(screen.key, goals, writeResolves)
    /\ resetReported' = "none"
    /\ GoalStep
    /\ UNCHANGED goalCounts
    /\ readLog' = NoRead
    /\ UNCHANGED <<storeVars, labVars, pathVars>>
    /\ UNCHANGED outsideGoals

\* the counts of one category card, from the stored list
CountsOf(key, readable, previous) ==
    IF ~readable \/ goalStorage[key] = Corrupt \/ goalStorage[key] = NoStored
    THEN previous
    ELSE LET parsedGoals == ParseGoals(goalStorage[key])
         IN  [goalCount |-> Len(parsedGoals),
              completedCount |-> Len(SelectSeq(parsedGoals, LAMBDA g : g.completed))]

\* LabScreen.loadGoalCounts; readable tells whether the getItem calls resolve
loadGoalCounts(readable) ==
    goalCounts' = [key \in GoalKeys |-> CountsOf(key, readable, goalCounts[key])]

\* onBack: the modal closes and the LabScreen effect runs loadGoalCounts
CloseGoalDetail(readable) ==
    /\ screen.pc = "shown"
    /\ screen' = Unmounted
    /\ loadGoalCounts(readable)
    /\ resetReported' = "none"
    /\ GoalStep
    /\ readLog' = NoRead
    /\ UNCHANGED goalStorage
    /\ UNCHANGED <<storeVars, labVars, pathVars>>
    /\ UNCHANGED outsideGoals

\* AIService.createGoalsForCategory for an input category with one input
createGoalsForCategory(title, type, writeResolves) ==
    /\ type = "input"
    /\ screen.pc = "unmounted"
    /\ LET goals == << [id |-> <<"goal", title, "daily">>, title |-> <<"Daily:", title>>,
                        description |-> <<"Complete daily habit:", title>>,
                        categoryId |-> title, type |-> "daily",
                        completed |-> FALSE, order |-> 1],
                       [id |-> <<"goal", title, "weekly">>, title |-> <<"Weekly:", title>>,
                        description |-> <<"Maintain consistency for", title, "this week">>,
                        categoryId |-> title, type |-> "weekly",
                        completed |-> FALSE, order |-> 2] >>
       IN  /\ saveGoals(storageKey(title, type), goals, writeResolves)
           /\ goalStorage' # goalStorage
    /\ resetReported' = "none"
    /\ GoalStep
    /\ UNCHANGED <<screen, goalCounts>>
    /\ readLog' = NoRead
    /\ UNCHANGED <<storeVars, labVars, pathVars>>
    /\ UNCHANGED outsideGoals

\* a chat is opened and its context saved (updateChatContext, saveToStorage)
OpenStoredChat ==
    /\ ~Has(contextData, CategoryTabId)
    /\ contextData' = updateChatContext(contextData, CategoryTabId,
                          [title |-> "Exercise", type |-> "category", messages |-> <<>>])
    /\ disk' = Serialize(contextData')
    /\ resetReported' = "none"
    /\ GoalStep
    /\ UNCHANGED <<pendingWrites, writeFailed, storeWritten>>
    /\ UNCHANGED <<goalStorage, screen, goalCounts>>
    /\ readLog' = NoRead
    /\ UNCHANGED <<labVars, pathVars>>
    /\ UNCHANGED outsideGoals

\* the app is started again: the memory of the store is empty
Relaunch ==
    /\ contextData # <<>>
    /\ contextData' = <<>>
    /\ screen' = Unmounted
    /\ resetReported' = "none"
    /\ GoalStep
    /\ UNCHANGED <<disk, pendingWrites, writeFailed, storeWritten>>
    /\ UNCHANGED <<goalStorage, goalCounts>>
    /\ readLog' = NoRead
    /\ UNCHANGED <<labVars, pathVars>>
    /\ UNCHANGED outsideGoals

\* SharedContextManager.loadFromStorage; a rejected getItem is caught
LoadSharedContext(readResolves) ==
    /\ contextData' = IF readResolves /\ disk # NoBlob THEN Parse(disk) ELSE contextData
    /\ readLog' = [op |-> "loadFromStorage", failed |-> ~readResolves]
    /\ resetReported' = "none"
    /\ GoalStep
    /\ UNCHANGED <<disk, pendingWrites, writeFailed, storeWritten>>
    /\ UNCHANGED <<goalStorage, screen, goalCounts>>
    /\ UNCHANGED <<labVars, pathVars>>
    /\ UNCHANGED outsideGoals

\* a progress path is created and saved for a category
StorePath(id) ==
    /\ pathStorage[id] = NoStored
    /\ pathStorage' = [pathStorage EXCEPT ![id] =
                          StringifyPath(GeneratePath(getCategoryById(id), pathClock))]
    /\ resetReported' = "none"
    /\ GoalStep
    /\ UNCHANGED <<pathCalls, events, pathClock>>
    /\ UNCHANGED <<goalStorage, screen, goalCounts>>
    /\ readLog' = NoRead
    /\ UNCHANGED <<storeVars, labVars>>
    /\ UNCHANGED outsideGoals

\* ProgressPathManager.loadProgressPath; a rejected getItem returns null
LoadStoredPath(id, readResolves) ==
    /\ readLog' = [op |-> "loadProgressPath", failed |-> ~readResolves]
    /\ resetReported' = "none"
    /\ GoalStep
    /\ UNCHANGED <<goalStorage, screen, goalCounts>>
    /\ UNCHANGED <<storeVars, labVars, pathVars>>
    /\ UNCHANGED outsideGoals

\* LabScreen.resetAllChats to its 'Reset Complete' alert: clearAllContext
\* (memory, then saveToStorage), clearAllProgressPaths, the local state
ResetAllData(contextSaved, pathsCleared) ==
    /\ screen.pc = "unmounted"
    /\ resetReported = "none"
    /\ contextData' = clearAllContext
    /\ disk' = IF contextSaved THEN Serialize(contextData') ELSE disk
    /\ pathStorage' = IF pathsCleared THEN [id \in CategoryIds |-> NoStored]
                      ELSE pathStorage
    /\ goalCounts' = [key \in GoalKeys |-> NoCounts]
    /\ resetReported' = "Reset Complete"
    /\ GoalStep
    /\ UNCHANGED <<pendingWrites, writeFailed, storeWritten>>
    /\ UNCHANGED <<pathCalls, events, pathClock>>
    /\ UNCHANGED <<goalStorage, screen>>
    /\ readLog' = NoRead
    /\ UNCHANGED labVars
    /\ UNCHANGED outsideGoals

GoalIdle ==
    /\ goalStorage = [key \in GoalKeys |-> NoStored]
    /\ screen = Unmounted
    /\ goalCounts = [key \in GoalKeys |-> NoCounts]
    /\ readLog = NoRead
    /\ resetReported = "idle"
    /\ goalSteps = 0

\* a text that does not parse may have been left under a key
GoalInit ==
    /\ goalStorage \in [GoalKeys -> {NoStored, Corrupt}]
    /\ screen = Unmounted
    /\ goalCounts = [key \in GoalKeys |-> NoCounts]
    /\ readLog = NoRead
    /\ resetReported = "none"
    /\ goalSteps = 0

GoalNext ==
    \/ \E key \in GoalKeys, r, w \in BOOLEAN : MountGoalDetail(key, r, w)
    \/ \E d \in {NoDate, DateOf(5)}, w \in BOOLEAN : AddGoal(d, w)
    \/ \E i \in 1..MaxGoals, w \in BOOLEAN : ToggleGoal(i, w)
    \/ \E r \in BOOLEAN : CloseGoalDetail(r)
    \/ \E c \in GoalCategories, w \in BOOLEAN : createGoalsForCategory(c[1], c[2], w)
    \/ OpenStoredChat
    \/ Relaunch
    \/ \E r \in BOOLEAN : LoadSharedContext(r)
    \/ StorePath("sleep")
    \/ \E r \in BOOLEAN : LoadStoredPath("sleep", r)
    \/ \E s, p \in BOOLEAN : ResetAllData(s, p)

(***************************************************************************)
(* The setup ChatScreen (theme.ts): sendMessage with its loading           *)
(* placeholder, updateStageProgress and the CATEGORY_CREATED listener.     *)
(* A stage marker of an AI response is one token; progress values are      *)
(* hundredths of a percent.  The sendMessage closure of a render holds the *)
(* stageProgress of that render.                                           *)
(***************************************************************************)
MaxChatSends == 2
MaxCategoryEvents == 1

NoMarker == [kind |-> "none"]

\* aiResponse.match(/\[(SETUP|EXECUTION|REVIEW)\s*[*]\s*(\d+)%\]/) on one token
StageMatchOf(tok) ==
    CASE tok = "[SETUP [*] 42%]" -> [kind |-> "stage", mainStage |-> "SETUP", progress |-> 4200]
      [] tok = "[SETUP [*] 100%]" -> [kind |-> "stage", mainStage |-> "SETUP", progress |-> 10000]
      [] tok = "[EXECUTION[*]50%]" -> [kind |-> "stage", mainStage |-> "EXECUTION", progress |-> 5000]
      [] tok = "[REVIEW [*] 0%]" -> [kind |-> "stage", mainStage |-> "REVIEW", progress |-> 0]
      [] OTHER -> NoMarker

\* aiResponse.match(/\[Phase\s+(\d+)\/5\s*[*]\s*(\d+)%\]/) on one token
PhaseMatchOf(tok) ==
    CASE tok = "[Phase 3/5 [*] 60%]" -> [kind |-> "phase", num |-> 3, progress |-> 6000]
      [] OTHER -> NoMarker

\* aiResponse.match(/\[Day\s+(\d+)\/6\s*[*]\s*(\d+)%\]/) on one token
DailyMatchOf(tok) ==
    CASE tok = "[Day 2/6 [*] 33%]" -> [kind |-> "day", num |-> 2, progress |-> 3300]
      [] OTHER -> NoMarker

\* aiResponse.match(/\[Review\s+(\d+)\/6\s*[*]\s*(\d+)%\]/) on one token
ReviewMatchOf(tok) ==
    CASE tok = "[Review 1/6 [*] 10%]" -> [kind |-> "review", num |-> 1, progress |-> 1000]
      [] OTHER -> NoMarker

\* String.prototype.match without the g flag: the leftmost match
FirstMatch(text, MatchOf(_)) ==
    LET hits == {i \in 1..Len(text) : MatchOf(text[i]) # NoMarker}
    IN  IF hits = {} THEN NoMarker
        ELSE MatchOf(text[CHOOSE i \in hits : \A j \in hits : i <= j])

phaseNames == <<"Understanding", "Weight", "Vision", "Maintenance", "Integration">>
reviewNames == <<"Sunday Review", "Monday Review", "Tuesday Review", "Wednesday Review",
                 "Thursday Review", "Friday Review">>

\* the stage the marker of the response asks for
MarkedStage(aiResponseText, prev) ==
    LET stageMatch == FirstMatch(aiResponseText, StageMatchOf)
        phaseMatch == FirstMatch(aiResponseText, PhaseMatchOf)
        dailyMatch == FirstMatch(aiResponseText, DailyMatchOf)
        reviewMatch == FirstMatch(aiResponseText, ReviewMatchOf)
    IN  IF stageMatch # NoMarker
        THEN [prev EXCEPT !.mainStage = stageMatch.mainStage, !.progress = stageMatch.progress]
        ELSE IF phaseMatch # NoMarker
        THEN [prev EXCEPT !.progress = phaseMatch.progress,
                          !.currentPhase = phaseNames[phaseMatch.num]]
        ELSE IF dailyMatch # NoMarker
        THEN [prev EXCEPT !.progress = dailyMatch.progress,
                          !.dailyPhase = days[dailyMatch.num]]
        ELSE IF reviewMatch # NoMarker
        THEN [prev EXCEPT !.progress = reviewMatch.progress,
                          !.reviewPhase = reviewNames[reviewMatch.num]]
        ELSE prev

\* variant: the marker is applied and the day of the week is not consulted
updateStageProgressMarkerOnly(aiResponseText, prev, closure, d) ==
    MarkedStage(aiResponseText, prev)

\* updateStageProgress: the setStageProgress updaters applied in order to the
\* state prev; closure is the stageProgress the running sendMessage closed over
updateStageProgress(aiResponseText, prev, closure, d) ==
    LET marked == MarkedStage(aiResponseText, prev)
    IN  IF getDayOfWeek(d) = "Saturday"
        THEN [marked EXCEPT !.mainStage = "REVIEW", !.progress = 0]
        ELSE IF closure.mainStage = "SETUP" /\ closure.progress >= 10000
        THEN [marked EXCEPT !.mainStage = "EXECUTION",
                            !.progress = executionProgress(getDayOfWeek(d))]
        ELSE marked

\* what the user types into the input field
ChatInputs == { <<"hello">>, <<"\n">> }

\* aiResponse.response of a resolved aiService.sendMessage
ChatResponses ==
    { <<"[SETUP [*] 42%]", "Tell", "me", "more">>,
      <<"Done", ".", "[SETUP [*] 100%]">>,
      <<"[Phase 3/5 [*] 60%]", "[EXECUTION[*]50%]">>,
      <<"[Day 2/6 [*] 33%]">>,
      <<"I'm experiencing some technical difficulties right now. Please try again in a moment.">> }

ConnectingTrouble ==
    <<"I'm having trouble connecting right now. Please try again in a moment.">>

LabMessageText == <<"Navigate", "to", "the", "Lab", "screen">>

ChatDays == {0, 5, 6}

ScreenMessage(text, isUser, loading) == [text |-> text, isUser |-> isUser, isLoading |-> loading]

InitialStageProgress ==
    [mainStage |-> "SETUP", progress |-> 0, currentPhase |-> "Understanding",
     dailyPhase |-> "", reviewPhase |-> ""]

\* prev.filter(msg => !msg.isLoading)
withoutLoading(prev) == SelectSeq(prev, LAMBDA msg : ~msg.isLoading)

\* onChangeText={setInputText}, the field being editable={!isLoading}
onChangeText(t) ==
    /\ ~isLoading
    /\ trim(chatInput) = <<>>
    /\ t # chatInput
    /\ chatInput' = t
    /\ UNCHANGED <<screenMessages, isLoading, stageProgress, chatCalls, chatDay,
                   chatSends, categoryEvents>>
    /\ UNCHANGED outsideChat

\* ChatScreen.sendMessage up to its await of aiService.sendMessage
chatSendMessage ==
    /\ trim(chatInput) # <<>> /\ ~isLoading
    /\ chatSends < MaxChatSends
    /\ screenMessages' = screenMessages
            \o << ScreenMessage(trim(chatInput), TRUE, FALSE), ScreenMessage(<<>>, FALSE, TRUE) >>
    /\ chatInput' = <<>>
    /\ isLoading' = TRUE
    /\ chatCalls' = Append(chatCalls, [text |-> trim(chatInput), stageProgress |-> stageProgress])
    /\ chatSends' = chatSends + 1
    /\ UNCHANGED <<stageProgress, chatDay, categoryEvents>>
    /\ UNCHANGED outsideChat

\* variant: the placeholder stays in the list when the reply is added
chatSendResolvesKeepsPlaceholder(k, response) ==
    /\ k \in 1..Len(chatCalls)
    /\ stageProgress' = updateStageProgress(response, stageProgress,
                                            chatCalls[k].stageProgress, chatDay)
    /\ screenMessages' = Append(screenMessages, ScreenMessage(response, FALSE, FALSE))
    /\ isLoading' = FALSE
    /\ chatCalls' = [i \in 1..(Len(chatCalls) - 1) |->
                        IF i < k THEN chatCalls[i] ELSE chatCalls[i + 1]]
    /\ UNCHANGED <<chatInput, chatDay, chatSends, categoryEvents>>
    /\ UNCHANGED outsideChat

\* aiService.sendMessage resolved: updateStageProgress, the reply replaces the
\* placeholder, finally setIsLoading(false)
chatSendResolves(k, response) ==
    /\ k \in 1..Len(chatCalls)
    /\ stageProgress' = updateStageProgress(response, stageProgress,
                                            chatCalls[k].stageProgress, chatDay)
    /\ screenMessages' = Append(withoutLoading(screenMessages),
                                ScreenMessage(response, FALSE, FALSE))
    /\ isLoading' = FALSE
    /\ chatCalls' = [i \in 1..(Len(chatCalls) - 1) |->
                        IF i < k THEN chatCalls[i] ELSE chatCalls[i + 1]]
    /\ UNCHANGED <<chatInput, chatDay, chatSends, categoryEvents>>
    /\ UNCHANGED outsideChat

\* aiService.sendMessage rejected: the catch block adds the fallback message
chatSendRejects(k) ==
    /\ k \in 1..Len(chatCalls)
    /\ screenMessages' = Append(withoutLoading(screenMessages),
                                ScreenMessage(ConnectingTrouble, FALSE, FALSE))
    /\ isLoading' = FALSE
    /\ chatCalls' = [i \in 1..(Len(chatCalls) - 1) |->
                        IF i < k THEN chatCalls[i] ELSE chatCalls[i + 1]]
    /\ UNCHANGED <<chatInput, stageProgress, chatDay, chatSends, categoryEvents>>
    /\ UNCHANGED outsideChat

\* the CATEGORY_CREATED listener
handleCategoryCreated ==
    /\ categoryEvents < MaxCategoryEvents
    /\ categoryEvents' = categoryEvents + 1
    /\ screenMessages' = Append(screenMessages, ScreenMessage(LabMessageText, FALSE, FALSE))
    /\ UNCHANGED <<chatInput, isLoading, stageProgress, chatCalls, chatDay, chatSends>>
    /\ UNCHANGED outsideChat

ChatIdle ==
    /\ screenMessages = <<>>
    /\ chatInput = <<>>
    /\ isLoading = FALSE
    /\ stageProgress = InitialStageProgress
    /\ chatCalls = <<>>
    /\ chatDay = 0
    /\ chatSends = 0
    /\ categoryEvents = 0

ChatInit ==
    /\ screenMessages = << ScreenMessage(<<"hello">>, FALSE, FALSE) >>
    /\ chatInput = <<>>
    /\ isLoading = FALSE
    /\ stageProgress = InitialStageProgress
    /\ chatCalls = <<>>
    /\ chatDay \in ChatDays
    /\ chatSends = 0
    /\ categoryEvents = 0

\* the pending aiService.sendMessage call settles
ChatSettles ==
    \/ \E k \in 1..Len(chatCalls), response \in ChatResponses : chatSendResolves(k, response)
    \/ \E k \in 1..Len(chatCalls) : chatSendRejects(k)

ChatNext ==
    \/ \E t \in ChatInputs : onChangeText(t)
    \/ chatSendMessage
    \/ \E k \in 1..Len(chatCalls), response \in ChatResponses : chatSendResolves(k, response)
    \/ \E k \in 1..Len(chatCalls) : chatSendRejects(k)
    \/ handleCategoryCreated

(***************************************************************************)
(* Vision file creation of a committing setup send and the timer chain it  *)
(* arms (aiService.ts createVisionFileFromConversationHistory): 2 s later  *)
(* createCategoriesFromVisionFile, and 1 s after that resolved             *)
(* createGoalsForCategories.  A timer callback is a task of its own, run   *)
(* only when no continuation of a settled promise is waiting.              *)
(***************************************************************************)
MaxCommits == 3

NewRun == [send |-> "creatingVision", result |-> "pending",
           categories |-> "none", goals |-> "none"]

\* a continuation (microtask) of some send is waiting to run
ContinuationWaiting == \E k \in 1..Len(setupRuns) : setupRuns[k].send = "scheduled"

\* what the send k or a task of its chain did is logged
Logged(k, what) == setupLog' = [setupLog EXCEPT ![k] = Append(@, what)]

\* sendMessage of the setup chat with a committing message, the gateway having
\* answered: handleVisionFileCreation awaits visionManager.createVisionFile
CommitSend ==
    /\ Len(setupRuns) < MaxCommits
    /\ \A k \in 1..Len(setupRuns) : setupRuns[k].send = "returned"
    /\ setupRuns' = Append(setupRuns, NewRun)
    /\ setupLog' = Append(setupLog, <<"sendStarted">>)
    /\ UNCHANGED outsideSetup

\* createVisionFile resolved: the 2 s timer is armed and the function returns
VisionFileCreated(k) ==
    /\ setupRuns[k].send = "creatingVision"
    /\ setupRuns' = [setupRuns EXCEPT ![k].send = "scheduled", ![k].categories = "timer"]
    /\ Logged(k, "visionFileCreated")
    /\ UNCHANGED outsideSetup

\* createVisionFile rejected: rethrown, caught and logged by handleVisionFileCreation
VisionFileFails(k) ==
    /\ setupRuns[k].send = "creatingVision"
    /\ setupRuns' = [setupRuns EXCEPT ![k].send = "scheduled"]
    /\ Logged(k, "visionFileFailed")
    /\ UNCHANGED outsideSetup

\* return { response: aiResponse }
SendReturns(k) ==
    /\ setupRuns[k].send = "scheduled"
    /\ setupRuns' = [setupRuns EXCEPT ![k].send = "returned", ![k].result = "response"]
    /\ Logged(k, "sendReturned")
    /\ UNCHANGED outsideSetup

\* the 2 s timer fires: await categoryManager.createCategoriesFromVisionFile
CategoriesTimerFires(k) ==
    /\ ~ContinuationWaiting
    /\ setupRuns[k].categories = "timer"
    /\ setupRuns' = [setupRuns EXCEPT ![k].categories = "running"]
    /\ Logged(k, "categoriesStarted")
    /\ UNCHANGED outsideSetup

\* createCategoriesFromVisionFile resolved: the 1 s timer is armed
CategoriesCreated(k) ==
    /\ ~ContinuationWaiting
    /\ setupRuns[k].categories = "running"
    /\ setupRuns' = [setupRuns EXCEPT ![k].categories = "created", ![k].goals = "timer"]
    /\ Logged(k, "categoriesCreated")
    /\ UNCHANGED outsideSetup

\* variant: the goals timer is armed whatever became of the categories
CategoriesFailStillGoals(k) ==
    /\ ~ContinuationWaiting
    /\ setupRuns[k].categories = "running"
    /\ setupRuns' = [setupRuns EXCEPT ![k].categories = "failed", ![k].goals = "timer"]
    /\ Logged(k, "categoriesFailed")
    /\ UNCHANGED outsideSetup

\* createCategoriesFromVisionFile rejected: caught and logged
CategoriesFail(k) ==
    /\ ~ContinuationWaiting
    /\ setupRuns[k].categories = "running"
    /\ setupRuns' = [setupRuns EXCEPT ![k].categories = "failed"]
    /\ Logged(k, "categoriesFailed")
    /\ UNCHANGED outsideSetup

\* the 1 s timer fires: await this.createGoalsForCategories(visionFile)
GoalsTimerFires(k) ==
    /\ ~ContinuationWaiting
    /\ setupRuns[k].goals = "timer"
    /\ setupRuns' = [setupRuns EXCEPT ![k].goals = "running"]
    /\ Logged(k, "goalsStarted")
    /\ UNCHANGED outsideSetup

\* createGoalsForCategories resolved (it catches its own errors)
GoalsCreated(k) ==
    /\ ~ContinuationWaiting
    /\ setupRuns[k].goals = "running"
    /\ setupRuns' = [setupRuns EXCEPT ![k].goals = "done"]
    /\ Logged(k, "goalsCreated")
    /\ UNCHANGED outsideSetup

SetupIdle ==
    /\ setupRuns = <<>>
    /\ setupLog = <<>>

SetupInit ==
    /\ setupRuns = <<>>
    /\ setupLog = <<>>

SetupNext ==
    \/ CommitSend
    \/ \E k \in 1..Len(setupRuns) : VisionFileCreated(k)
    \/ \E k \in 1..Len(setupRuns) : VisionFileFails(k)
    \/ \E k \in 1..Len(setupRuns) : SendReturns(k)
    \/ \E k \in 1..Len(setupRuns) : CategoriesTimerFires(k)
    \/ \E k \in 1..Len(setupRuns) : CategoriesCreated(k)
    \/ \E k \in 1..Len(setupRuns) : CategoriesFail(k)
    \/ \E k \in 1..Len(setupRuns) : GoalsTimerFires(k)
    \/ \E k \in 1..Len(setupRuns) : GoalsCreated(k)

(***************************************************************************)
(* Proactive check-ins (part_004 lines 186-196 and 375-413).  The          *)
(* proactiveCheckInManager is initialized by the LabScreen mount effect    *)
(* after loadFromStorage; its module is not among the sources.  What the   *)
(* poll relies on is modelled: a check-in is one addMessage call on the    *)
(* store's 'central-hub' tab, with an id of the manager's own.             *)
(***************************************************************************)
MaxCheckIns == 1

CheckInId(n) == 100 + n

proactiveCheckIn ==
    /\ mountPc # "loading"
    /\ Cardinality(checkIns) < MaxCheckIns
    /\ Len(StoredMessages(contextData, CentralTabId)) < MaxMsgs
    /\ LET checkIn == [id |-> CheckInId(Cardinality(checkIns) + 1), sender |-> "ai"]
       IN  /\ contextData' = addMessage(contextData, CentralTabId, checkIn)
           /\ saveToStorage(contextData', NoOwner)
           /\ checkIns' = checkIns \cup {checkIn.id}
    /\ UNCHANGED labVars
    /\ UNCHANGED outsidePoll

PollIdle == checkIns = {}

PollInit == LabInit /\ PollIdle

\* the mount effect, the sends, the sync effect, the poll and the check-ins;
\* tab closing, Reset All and failing storage calls are left to Spec
PollNext ==
    \/ StorageCommit
    \/ loadFromStorage
    \/ restoreMessagesFromContext
    \/ handleChatClick
    \/ handleCentralChatClick
    \/ \E t \in TabIds : handleSendMessage(t)
    \/ \E s \in sends : handleSendMessageReply(s)
    \/ syncMessagesWithContext
    \/ \E slot \in 1..MaxSyncs : syncContinue(slot)
    \/ pollForNewMessages
    \/ proactiveCheckIn

(***************************************************************************)
(* The web App (src/App.tsx): the navigation state of the root component.  *)
(* Each handler is offered by the screen that renders its control; the     *)
(* bottom navigation is rendered on every screen behind the login.         *)
(***************************************************************************)
MaxAppGoals == 2

NoGoal == [id |-> "null"]

\* the goals the Lab screen lists
AppGoals == {[id |-> i, type |-> IF i % 2 = 1 THEN "input" ELSE "output"] : i \in 1..MaxAppGoals}

\* what App returns: the login screen, or renderScreen() behind the login
renderScreen ==
    IF ~isLoggedIn THEN "LoginScreen"
    ELSE CASE currentScreen = "chat" ->
                 IF showGoalChat /\ activeGoalContext # NoGoal
                 THEN "ChatScreen+CategoryChatPanel" ELSE "ChatScreen"
           [] currentScreen = "lab" -> "LabScreen"
           [] currentScreen = "goalDetail" ->
                 IF selectedGoal # NoGoal THEN "GoalDetailScreen" ELSE "LabScreen"
           [] currentScreen = "settings" -> "SettingsScreen"
           [] OTHER -> "LabScreen"

handleLogin ==
    /\ renderScreen = "LoginScreen"
    /\ isLoggedIn' = TRUE
    /\ currentScreen' = "chat"
    /\ UNCHANGED <<isDarkMode, selectedGoal, activeGoalContext, showGoalChat>>
    /\ UNCHANGED outsideApp

toggleDarkMode ==
    /\ renderScreen = "SettingsScreen"
    /\ isDarkMode' = ~isDarkMode
    /\ UNCHANGED <<currentScreen, isLoggedIn, selectedGoal, activeGoalContext, showGoalChat>>
    /\ UNCHANGED outsideApp

handleGoalSelect(goal) ==
    /\ renderScreen = "LabScreen"
    /\ selectedGoal' = goal
    /\ currentScreen' = "goalDetail"
    /\ UNCHANGED <<isLoggedIn, isDarkMode, activeGoalContext, showGoalChat>>
    /\ UNCHANGED outsideApp

\* variant: the back button clears the goal and leaves the screen as it is
handleBackFromGoalDetailStays ==
    /\ renderScreen = "GoalDetailScreen"
    /\ selectedGoal' = NoGoal
    /\ UNCHANGED <<currentScreen, isLoggedIn, isDarkMode, activeGoalContext, showGoalChat>>
    /\ UNCHANGED outsideApp

handleBackFromGoalDetail ==
    /\ renderScreen = "GoalDetailScreen"
    /\ selectedGoal' = NoGoal
    /\ currentScreen' = "lab"
    /\ UNCHANGED <<isLoggedIn, isDarkMode, activeGoalContext, showGoalChat>>
    /\ UNCHANGED outsideApp

handleGoalChatOpen(goal) ==
    /\ renderScreen = "LabScreen"
    /\ activeGoalContext' = goal
    /\ showGoalChat' = TRUE
    /\ currentScreen' = "chat"
    /\ UNCHANGED <<isLoggedIn, isDarkMode, selectedGoal>>
    /\ UNCHANGED outsideApp

\* the Home button of the bottom navigation
handleChatNavigation ==
    /\ isLoggedIn
    /\ showGoalChat' = (activeGoalContext # NoGoal)
    /\ currentScreen' = "chat"
    /\ UNCHANGED <<isLoggedIn, isDarkMode, selectedGoal, activeGoalContext>>
    /\ UNCHANGED outsideApp

\* onClose of the CategoryChatPanel
closeGoalChat ==
    /\ renderScreen = "ChatScreen+CategoryChatPanel"
    /\ showGoalChat' = FALSE
    /\ UNCHANGED <<currentScreen, isLoggedIn, isDarkMode, selectedGoal, activeGoalContext>>
    /\ UNCHANGED outsideApp

\* the Lab and Settings buttons of the bottom navigation
setCurrentScreen(target) ==
    /\ isLoggedIn
    /\ currentScreen' = target
    /\ UNCHANGED <<isLoggedIn, isDarkMode, selectedGoal, activeGoalContext, showGoalChat>>
    /\ UNCHANGED outsideApp

AppIdle ==
    /\ currentScreen = "login"
    /\ isLoggedIn = FALSE
    /\ isDarkMode = FALSE
    /\ selectedGoal = NoGoal
    /\ activeGoalContext = NoGoal
    /\ showGoalChat = FALSE

AppInit == AppIdle

AppNext ==
    \/ handleLogin
    \/ toggleDarkMode
    \/ \E goal \in AppGoals : handleGoalSelect(goal)
    \/ handleBackFromGoalDetail
    \/ \E goal \in AppGoals : handleGoalChatOpen(goal)
    \/ handleChatNavigation
    \/ closeGoalChat
    \/ \E target \in {"lab", "settings"} : setCurrentScreen(target)

(***************************************************************************)
(* The web GoalDetailScreen (components/GoalDetailScreen.tsx): the list of *)
(* individual goals of one category and the completion percentage drawn    *)
(* from it.  A percentage is a record: JavaScript's NaN, or a number in    *)
(* hundredths of a percent.                                                *)
(***************************************************************************)
MaxNewGoals == 1

\* useState initial value: five goals, the first two completed
MockGoals ==
    [i \in 1..5 |-> [id |-> i, completed |-> (i <= 2)]]

NaN == [nan |-> TRUE, value |-> 0]

Number(v) == [nan |-> FALSE, value |-> v]

completedGoals(goals) == SelectSeq(goals, LAMBDA g : g.completed)

\* (completedGoals.length / individualGoals.length) * 100; 0 / 0 is NaN
progressPercentage(goals) ==
    IF Len(goals) = 0
    THEN NaN
    ELSE Number((Len(completedGoals(goals)) * 10000) \div Len(goals))

\* the form is submitted with a non-blank title; the id is Date.now()
addNewGoal ==
    /\ newGoals < MaxNewGoals
    /\ individualGoals' = Append(individualGoals,
                                 [id |-> Len(MockGoals) + newGoals + 1, completed |-> FALSE])
    /\ newGoals' = newGoals + 1
    /\ UNCHANGED outsideDetail

toggleGoalCompletion(goalId) ==
    /\ \E i \in 1..Len(individualGoals) : individualGoals[i].id = goalId
    /\ individualGoals' = [i \in 1..Len(individualGoals) |->
                              IF individualGoals[i].id = goalId
                              THEN [individualGoals[i] EXCEPT !.completed = ~@]
                              ELSE individualGoals[i]]
    /\ UNCHANGED newGoals
    /\ UNCHANGED outsideDetail

deleteGoal(goalId) ==
    /\ \E i \in 1..Len(individualGoals) : individualGoals[i].id = goalId
    /\ individualGoals' = SelectSeq(individualGoals, LAMBDA g : g.id # goalId)
    /\ UNCHANGED newGoals
    /\ UNCHANGED outsideDetail

DetailIdle ==
    /\ individualGoals = MockGoals
    /\ newGoals = 0

DetailInit == DetailIdle

DetailNext ==
    \/ addNewGoal
    \/ \E goalId \in 1..(Len(MockGoals) + MaxNewGoals) : toggleGoalCompletion(goalId)
    \/ \E goalId \in 1..(Len(MockGoals) + MaxNewGoals) : deleteGoal(goalId)

vars == <<storeVars, labVars, stageVars, sendVars, visionVars, crossVars, pathVars, goalVars, chatVars, setupVars, pollVars, appVars, detailVars>>

Init == LabInit /\ StageIdle /\ SendIdle /\ VisionIdle /\ CrossIdle /\ PathIdle /\ GoalIdle /\ ChatIdle /\ SetupIdle /\ PollIdle /\ AppIdle /\ DetailIdle

Next == LabNext

Spec == Init /\ [][Next]_vars

StageSpecInit == StageInit /\ LabIdle /\ SendIdle /\ VisionIdle /\ CrossIdle /\ PathIdle /\ GoalIdle /\ ChatIdle /\ SetupIdle /\ PollIdle /\ AppIdle /\ DetailIdle

SpecStage == StageSpecInit /\ [][StageNext]_vars

SendSpecInit == SendInit /\ LabIdle /\ VisionIdle /\ CrossIdle /\ PathIdle /\ GoalIdle /\ ChatIdle /\ SetupIdle /\ PollIdle /\ AppIdle /\ DetailIdle

SpecSend == SendSpecInit /\ [][SendNext]_vars

VisionSpecInit == VisionInit /\ LabIdle /\ SendIdle /\ CrossIdle /\ PathIdle /\ GoalIdle /\ ChatIdle /\ SetupIdle /\ PollIdle /\ AppIdle /\ DetailIdle

SpecVision == VisionSpecInit /\ [][VisionNext]_vars

CrossSpecInit == CrossInit /\ LabIdle /\ StageIdle /\ SendIdle /\ VisionIdle /\ PathIdle /\ GoalIdle /\ ChatIdle /\ SetupIdle /\ PollIdle /\ AppIdle /\ DetailIdle

SpecCross == CrossSpecInit /\ [][CrossNext]_vars

PathSpecInit == PathInit /\ LabIdle /\ StageIdle /\ SendIdle /\ VisionIdle /\ CrossIdle /\ GoalIdle /\ ChatIdle /\ SetupIdle /\ PollIdle /\ AppIdle /\ DetailIdle

SpecPath == PathSpecInit /\ [][PathNext]_vars

GoalsSpecInit == GoalInit /\ LabIdle /\ StageIdle /\ SendIdle /\ VisionIdle /\ CrossIdle /\ PathIdle /\ ChatIdle /\ SetupIdle /\ PollIdle /\ AppIdle /\ DetailIdle

SpecGoals == GoalsSpecInit /\ [][GoalNext]_vars

ChatSpecInit == ChatInit /\ LabIdle /\ StageIdle /\ SendIdle /\ VisionIdle /\ CrossIdle /\ PathIdle /\ GoalIdle /\ SetupIdle /\ PollIdle /\ AppIdle /\ DetailIdle

SpecChat == ChatSpecInit /\ [][ChatNext]_vars /\ WF_vars(ChatSettles)

SetupSpecInit == SetupInit /\ LabIdle /\ StageIdle /\ SendIdle /\ VisionIdle /\ CrossIdle /\ PathIdle /\ GoalIdle /\ ChatIdle /\ PollIdle /\ AppIdle /\ DetailIdle

SpecSetup == SetupSpecInit /\ [][SetupNext]_vars

PollSpecInit == PollInit /\ StageIdle /\ SendIdle /\ VisionIdle /\ CrossIdle /\ PathIdle /\ GoalIdle /\ ChatIdle /\ SetupIdle /\ AppIdle /\ DetailIdle

SpecPoll == PollSpecInit /\ [][PollNext]_vars

AppSpecInit == AppInit /\ LabIdle /\ StageIdle /\ SendIdle /\ VisionIdle /\ CrossIdle /\ PathIdle /\ GoalIdle /\ ChatIdle /\ SetupIdle /\ PollIdle /\ DetailIdle

SpecApp == AppSpecInit /\ [][AppNext]_vars

DetailSpecInit == DetailInit /\ LabIdle /\ StageIdle /\ SendIdle /\ VisionIdle /\ CrossIdle /\ PathIdle /\ GoalIdle /\ ChatIdle /\ SetupIdle /\ PollIdle /\ AppIdle

SpecDetail == DetailSpecInit /\ [][DetailNext]_vars


(***************************************************************************)
(* Claims about the Shared Chat Context Store.                             *)
(***************************************************************************)
ListedLabStep ==
    \/ handleChatClick
    \/ handleCentralChatClick
    \/ \E t \in TabIds : handleUpdateTabs(t)
    \/ \E t \in TabIds : handleSendMessage(t)
    \/ \E s \in sends : handleSendMessageReply(s)
    \/ syncMessagesWithContext
    \/ \E slot \in 1..MaxSyncs : syncContinue(slot)
    \/ pollForNewMessages

\* C1: over every LabScreen step other than Reset All (send, open / close /
\* reopen a tab, poll, sync effect) each tab of the store keeps its stored
\* message list as a prefix of the list it has after the step.
C1_AppendOnly ==
    [][ListedLabStep =>
         \A t \in TabIds :
            Has(contextData, t) =>
               /\ Has(contextData', t)
               /\ IsPrefix(StoredMessages(contextData, t), StoredMessages(contextData', t))]_vars

\* position of the first occurrence of message id n in list l (0: absent)
FirstIndex(l, n) ==
    LET c == {i \in 1..Len(l) : l[i].id = n}
    IN  IF c = {} THEN 0 ELSE CHOOSE i \in c : \A k \in c : i <= k

\* C2: in every tab's stored list, of two messages that are both present the
\* one whose addMessage call was issued first (the smaller id) comes first.
C2_MessageOrder ==
    \A t \in TabIds :
       LET l == StoredMessages(contextData, t)
       IN  \A i, j \in 1..Len(l) :
              l[i].id < l[j].id => FirstIndex(l, l[i].id) < FirstIndex(l, l[j].id)

\* two sends overlapped on one tab and the first reply has been stored
C2_Witness ==
    \E t \in TabIds :
       LET l == StoredMessages(contextData, t)
       IN  \E i, j, k \in 1..Len(l) :
              /\ i < j /\ j < k
              /\ l[i].sender = "user" /\ l[j].sender = "user" /\ l[k].sender = "ai"
              /\ l[i].id + 1 = l[j].id

\* C3: with no save in flight and no failed write, the persisted blob is the
\* serialization of the in-memory state (once the store has been written).
C3_PersistedEqualsMemory ==
    (storeWritten /\ pendingWrites = <<>> /\ ~writeFailed)
        => disk = Serialize(contextData)


(***************************************************************************)
(* Claims about the Conversation Stage Tracker (checked under SpecStage).  *)
(***************************************************************************)
Evaluated == stagePc = "evaluated"

PostSetup ==
    /\ userMessageCount(history) >= 5
    /\ someUserMessage(history, VisionElementWords)

\* C6 as stated: central / category sends are EXECUTION at 50, except REVIEW
\* at 0 on a Saturday.
C6_SaturdayOverride ==
    (Evaluated /\ chatType \in {"central", "category"}) =>
        IF getDayOfWeek(today) = "Saturday"
        THEN currentStage = [mainStage |-> "REVIEW", progress |-> 0]
        ELSE currentStage = [mainStage |-> "EXECUTION", progress |-> 5000]

\* C6 amended: central / category sends are EXECUTION at 50 on every weekday,
\* Saturday included.
C6_AlwaysExecution ==
    (Evaluated /\ chatType \in {"central", "category"}) =>
        currentStage = [mainStage |-> "EXECUTION", progress |-> 5000]

C6_Witness ==
    /\ Evaluated
    /\ chatType \in {"central", "category"}
    /\ getDayOfWeek(today) = "Saturday"
    /\ currentStage.mainStage = "EXECUTION"

\* C7: a post-setup transcript (>= 5 user messages, one with a vision keyword)
\* is REVIEW at 0 on Saturday and EXECUTION on the other six weekdays.
C7_PostSetupStage ==
    (Evaluated /\ chatType = "setup" /\ PostSetup) =>
        IF getDayOfWeek(today) = "Saturday"
        THEN currentStage = [mainStage |-> "REVIEW", progress |-> 0]
        ELSE currentStage.mainStage = "EXECUTION"

C7_Witness ==
    /\ Evaluated
    /\ chatType = "setup"
    /\ PostSetup
    /\ getDayOfWeek(today) = "Saturday"
    /\ currentStage.mainStage = "REVIEW"

\* C8 as stated: a post-setup transcript on a Wednesday has progress 50.
C8_WednesdayFifty ==
    (Evaluated /\ chatType = "setup" /\ PostSetup /\ getDayOfWeek(today) = "Wednesday") =>
        currentStage.progress = 5000

\* C8 amended: a post-setup transcript on a Wednesday has progress 66.67
\* (50 is the value of Tuesday).
C8_WednesdayTwoThirds ==
    /\ (Evaluated /\ chatType = "setup" /\ PostSetup /\ getDayOfWeek(today) = "Wednesday") =>
          currentStage = [mainStage |-> "EXECUTION", progress |-> 6667]
    /\ (Evaluated /\ chatType = "setup" /\ PostSetup /\ getDayOfWeek(today) = "Tuesday") =>
          currentStage = [mainStage |-> "EXECUTION", progress |-> 5000]

C8_Witness ==
    /\ Evaluated
    /\ chatType = "setup"
    /\ PostSetup
    /\ getDayOfWeek(today) = "Wednesday"
    /\ currentStage.mainStage = "EXECUTION"

\* keyword-set coverage of the five phases by the user messages of history
Covered(ks) == someUserMessage(history, ks)

PhaseSets(k) ==
    CASE k = 1 -> {PainPointWords, ConstraintWords, TimeHorizonWords}
      [] k = 2 -> {CostWords, ConfidenceWords}
      [] k = 3 -> {InputWords, OutputWords}
      [] k = 4 -> {SupportWords, StrategyWords}
      [] k = 5 -> {VisionFileWords}

PhaseFull(k) == \A ks \in PhaseSets(k) : Covered(ks)
PhaseSome(k) == \E ks \in PhaseSets(k) : Covered(ks)
PhasePartial(k) == PhaseSome(k) /\ ~PhaseFull(k)

\* the first phase that is not fully covered (5 when all are)
PhaseReached ==
    IF \A k \in 1..5 : PhaseFull(k) THEN 5
    ELSE CHOOSE k \in 1..5 : ~PhaseFull(k) /\ \A j \in 1..(k - 1) : PhaseFull(j)

\* C9: no pain-point vocabulary gives 0 whatever else is present; all five
\* phases covered gives 100.
C9_ZeroAndHundred ==
    Evaluated =>
        /\ ~Covered(PainPointWords) => setupProgress = 0
        /\ (\A k \in 1..5 : PhaseFull(k)) => setupProgress = 10000

C9_Witness ==
    /\ Evaluated
    /\ ~Covered(PainPointWords)
    /\ Covered(ConstraintWords) /\ Covered(TimeHorizonWords)
    /\ \A k \in 2..5 : PhaseFull(k)
    /\ setupProgress = 0

InBand ==
    /\ 2000 * (PhaseReached - 1) <= setupProgress
    /\ setupProgress <= 2000 * PhaseReached

EnteredInOrder ==
    \A k \in 2..5 :
       setupProgress > 2000 * (k - 1) => \A j \in 1..(k - 1) : PhaseFull(j)

\* C10 as stated: the value lies in the band of the phase reached, bands are
\* entered in order, and each band has the two sub-levels 'started' (partial
\* coverage, strictly inside the band) and 'complete' (full coverage, 20k).
C10_TwoSubLevels ==
    Evaluated =>
        /\ InBand
        /\ EnteredInOrder
        /\ PhasePartial(PhaseReached) =>
              /\ 2000 * (PhaseReached - 1) < setupProgress
              /\ setupProgress < 2000 * PhaseReached
        /\ \A k \in 1..5 :
              ((\A j \in 1..k : PhaseFull(j)) /\ (k < 5 => ~PhaseSome(k + 1)))
                  => setupProgress = 2000 * k

\* C10 amended: the value lies in the band of the phase reached and bands
\* are entered in order, with these levels: phase 1 gives 0 without a
\* pain-point word, 10 with pain points only, 15 with pain points and
\* constraints; phase 2 gives 30 with costs, else 20; phase 3 gives 50 with
\* inputs or outputs, else 40; phase 4 gives 70 with support, else 60; with
\* phases 1-4 covered the value is 90, and 100 with a phase-5 word.
C10_Levels ==
    Evaluated =>
        /\ InBand
        /\ EnteredInOrder
        /\ setupProgress =
              CASE PhaseReached = 1 ->
                      IF ~Covered(PainPointWords) THEN 0
                      ELSE IF Covered(ConstraintWords) THEN 1500 ELSE 1000
                [] PhaseReached = 2 -> IF Covered(CostWords) THEN 3000 ELSE 2000
                [] PhaseReached = 3 -> IF PhaseSome(3) THEN 5000 ELSE 4000
                [] PhaseReached = 4 -> IF Covered(SupportWords) THEN 7000 ELSE 6000
                [] PhaseReached = 5 -> IF PhaseFull(5) THEN 10000 ELSE 9000

\* phases 1-3 covered and only strategy words of phase 4: the band of
\* phase 4 is not started
C10_Witness ==
    /\ Evaluated
    /\ PhaseReached = 4
    /\ Covered(StrategyWords)
    /\ ~Covered(SupportWords)
    /\ setupProgress = 6000

(***************************************************************************)
(* Claims on AIService.sendMessage, checked under SpecSend.                *)
(***************************************************************************)
FixedResponses == {AuthText, NetworkText, TechnicalText}

\* C4: sendMessage never rejects, and a call on which the send path threw
\* (authentication failure with status 401, network failure, empty gateway
\* response or any other exception) resolves with an AIResponse whose error
\* field is set and whose response is one of the three fixed texts (never
\* the raw error).
C4_FailuresConverted ==
    /\ sendPc # "rejected"
    /\ (sendPc = "resolved" /\ thrown # NoError) =>
          /\ result.error # NoErrorField
          /\ result.error # ""
          /\ result.response \in FixedResponses
          /\ result.response # <<thrown.message>>

C4_Witness ==
    /\ sendPc = "resolved"
    /\ thrown = NoResponseError
    /\ result = [response |-> TechnicalText, error |-> "No response from AI service"]

\* C5: when the LabScreen sends message m in a category chat, the stage of
\* that send is EXECUTION and the DailySummary of the current date is
\* updated from m itself: once prepareMessageContext has run, a trimmed
\* 'did / completed / finished ...' clause of m is the last entry of that
\* date's keyActions.
C5_CategorySendTracked ==
    (sendPc = "gateway" /\ caller = "LabScreen.category") =>
        /\ currentStage.mainStage = "EXECUTION"
        /\ matchAfter(message, ActionWords) # NoMatch =>
              /\ HasSummary(dailySummaries, getDateKey(today))
              /\ LET keyActions == SummaryOf(dailySummaries, getDateKey(today)).keyActions
                 IN  /\ keyActions # <<>>
                     /\ keyActions[Len(keyActions)] = matchAfter(message, ActionWords)


(***************************************************************************)
(* Claims on the vision extraction, checked under SpecVision.              *)
(***************************************************************************)
Extracted == visionPc = "extracted"

IsHeaderLine(line) == includesAny(line, InputHeaders \cup OutputHeaders)

\* the section a line stands in: that of the last header line before it
SectionAt(lines, i) ==
    LET headers == {j \in 1..(i - 1) : IsHeaderLine(lines[j])}
    IN  IF headers = {} THEN "none"
        ELSE LET last == CHOOSE j \in headers : \A k \in headers : k <= j
             IN  IF includesAny(lines[last], InputHeaders) THEN "inputs" ELSE "outputs"

RECURSIVE Ascending(_)
Ascending(S) ==
    IF S = {} THEN <<>>
    ELSE LET least == CHOOSE x \in S : \A y \in S : x <= y
         IN  <<least>> \o Ascending(S \ {least})

\* the non-empty bullet lines of a section, in line order
BulletLines(lines, section, rulesCount) ==
    Ascending({i \in 1..Len(lines) :
                  /\ SectionAt(lines, i) = section
                  /\ ~IsHeaderLine(lines[i])
                  /\ startsWithBullet(lines[i])
                  /\ BulletText(lines[i]) # <<>>
                  /\ rulesCount \/ ~startsWithRule(lines[i])})

OneRecordPerBullet(rulesCount) ==
    LET ins == BulletLines(responseLines, "inputs", rulesCount)
        outs == BulletLines(responseLines, "outputs", rulesCount)
    IN  /\ Len(visionSummary.inputs) = Len(ins)
        /\ Len(visionSummary.outputs) = Len(outs)
        /\ \A n \in 1..Len(ins) :
              /\ n <= Len(visionSummary.inputs)
              /\ visionSummary.inputs[n].id = <<"input", n>>
              /\ visionSummary.inputs[n].description = BulletText(responseLines[ins[n]])
              /\ visionSummary.inputs[n].type =
                    IF includesAny(BulletText(responseLines[ins[n]]),
                                   {"sleep", "nutrition", "exercise"})
                    THEN "health" ELSE "strength"
        /\ \A n \in 1..Len(outs) :
              /\ n <= Len(visionSummary.outputs)
              /\ visionSummary.outputs[n].id = <<"output", n>>
              /\ visionSummary.outputs[n].description = BulletText(responseLines[outs[n]])

\* C11 as stated: one input record per non-empty bullet line (starting with
\* the bullet character or '-') that follows an 'inputs:' header line and
\* one output record per bullet line that follows an 'outputs:' / 'goals:' /
\* 'targets:' header line, in line order with ids 1..n, nothing for header
\* lines or for bullets before any header; an input is 'health' iff its text
\* contains 'sleep', 'nutrition' or 'exercise'.
C11_EveryBulletLine == Extracted => OneRecordPerBullet(TRUE)

\* C11 amended: as above, for the bullet lines that do not start with '---'
\* (a line starting with '---' or '===' is skipped as a rule and yields
\* nothing), a header line being any line that contains one of the markers.
C11_BulletsButRules == Extracted => OneRecordPerBullet(FALSE)

C11_Witness ==
    /\ Extracted
    /\ \E i \in 1..Len(responseLines) :
          startsWithRule(responseLines[i]) /\ SectionAt(responseLines, i) = "inputs"
    /\ Len(visionSummary.inputs) = 2
    /\ visionSummary.inputs[1].type = "health"
    /\ visionSummary.inputs[2].type = "strength"
    /\ visionSummary.inputs[2].id = <<"input", 2>>

(***************************************************************************)
(* C12                                                                     *)
(***************************************************************************)
StructuredFound ==
    Len(visionSummary.inputs) > 0 \/ Len(visionSummary.outputs) > 0

ScannedText ==
    ContentsOf(history, "user") \o ContentsOf(history, "assistant")
        \o JoinLines(responseLines)

UserText == ContentsOf(history, "user")

\* C12, as stated: when the structured parse of the AI response finds a
\* section, no field of the vision data comes from keyword scanning (inputs and
\* outputs are the parsed ones, the other fields hold nothing scanned); when it
\* finds none, inputs and outputs are both the keyword-scanned ones.
C12_ScanOnlyOnFailure ==
    Extracted =>
        IF StructuredFound
        THEN /\ visionData.inputs = visionSummary.inputs
             /\ visionData.outputs = visionSummary.outputs
             /\ visionData.painPoints = <<>>
             /\ visionData.constraints = <<>>
             /\ visionData.supportNetwork = <<>>
             /\ visionData.copingStrategies = <<>>
        ELSE /\ visionData.inputs = extractInputsFromText(ScannedText)
             /\ visionData.outputs = extractOutputsFromText(ScannedText)

\* C12, amended: the fallback is decided per field.  The inputs are the parsed
\* ones when the parse yields an input and the keyword-scanned ones otherwise;
\* likewise the outputs; the six remaining fields are always keyword-scanned
\* from the user's messages, whatever the parse finds.
C12_ScanPerField ==
    Extracted =>
        /\ visionData.inputs =
               IF Len(visionSummary.inputs) > 0 THEN visionSummary.inputs
               ELSE extractInputsFromText(ScannedText)
        /\ visionData.outputs =
               IF Len(visionSummary.outputs) > 0 THEN visionSummary.outputs
               ELSE extractOutputsFromText(ScannedText)
        /\ visionData.painPoints = extractPainPointsFromText(UserText)
        /\ visionData.constraints = extractConstraintsFromText(UserText)
        /\ visionData.timeHorizon = extractTimeHorizonFromText(UserText)
        /\ visionData.confidenceLevel = extractConfidenceLevelFromText(UserText)
        /\ visionData.supportNetwork = extractSupportNetworkFromText(UserText)
        /\ visionData.copingStrategies = extractCopingStrategiesFromText(UserText)

C12_Witness ==
    /\ Extracted
    /\ Len(visionSummary.inputs) > 0
    /\ Len(visionSummary.outputs) = 0
    /\ visionData.inputs = visionSummary.inputs
    /\ Len(visionData.outputs) > 0
    /\ Len(visionData.painPoints) > 0

(***************************************************************************)
(* Claims on getCrossChatContext, checked under SpecCross.                 *)
(***************************************************************************)
Answered == crossPc = "answered"

OtherChats == SelectSeq(crossChats, LAMBDA chat : chat.tabId # excluded)

IsMessageLine(l) == Len(l) = 2
IsContextHeader(l) == Len(l) = 4

\* the message lines of the returned text that carry a message of tab t
MessageLinesOf(t) ==
    SelectSeq(crossContext, LAMBDA l : IsMessageLine(l) /\ l[2][1] = t)

Headers == SelectSeq(crossContext, IsContextHeader)

\* the tab whose header line is l
StampOfHeader(l) ==
    LET t == CHOOSE x \in CrossTabIds : CrossTitle(x) = l[2]
    IN  getChatContext(crossChats, t).lastUpdated

\* C13: the text getCrossChatContext(excludeTabId) returns has no message of
\* the excluded tab; for every other tab it has exactly the tab's last
\* min(5, n) messages in stored order (none for a tab without messages, which
\* contributes its header only); the tabs appear newest lastUpdated first; and
\* without another tab the text is 'No other chat contexts available.'.
C13_CrossChatContext ==
    Answered =>
        /\ MessageLinesOf(excluded) = <<>>
        /\ \A i \in 1..Len(OtherChats) :
              LET chat == OtherChats[i]
                  n == Len(chat.messages)
                  k == Min(5, n)
              IN  /\ MessageLinesOf(chat.tabId) =
                        [j \in 1..k |-> <<chat.messages[n - k + j].sender,
                                          chat.messages[n - k + j].text>>]
                  /\ Len(SelectSeq(Headers, LAMBDA l : l[2] = chat.title)) = 1
        /\ Len(Headers) = Len(OtherChats)
        /\ \A i, j \in 1..Len(Headers) :
              i < j => StampOfHeader(Headers[i]) >= StampOfHeader(Headers[j])
        /\ (OtherChats = <<>>) <=> (crossContext = NoOtherChats)

C13_Witness ==
    /\ Answered
    /\ Has(crossChats, excluded)
    /\ StoredMessages(crossChats, excluded) # <<>>
    /\ Len(OtherChats) = 2
    /\ Len(OtherChats[1].messages) = 6
    /\ OtherChats[2].messages = <<>>
    /\ OtherChats[1].lastUpdated < OtherChats[2].lastUpdated
    /\ Len(MessageLinesOf(OtherChats[1].tabId)) = 5

(***************************************************************************)
(* Claims on the progress paths, checked under SpecPath.                   *)
(***************************************************************************)
Generated(k) == pathCalls[k].path # NoPath

CategoryOf(k) == getCategoryById(pathCalls[k].categoryId)

\* the target dates the outputs of a category declare
TargetDays(category) ==
    {category.outputs[i].targetDate.day :
        i \in {j \in 1..Len(category.outputs) : category.outputs[j].targetDate # NoDate}}

\* the least number of whole weeks that cover d days
WeeksCovering(d) == CHOOSE w \in -20..20 : 7 * w >= d /\ 7 * (w - 1) < d

ExpectedWeeks(category, now) ==
    IF TargetDays(category) = {} THEN 4
    ELSE LET latest == CHOOSE d \in TargetDays(category) :
                           \A e \in TargetDays(category) : e <= d
         IN  IF WeeksCovering(latest - now) < 4 THEN 4 ELSE WeeksCovering(latest - now)

\* C14: the path generated for a category has totalWeeks = max(4, ceil((latest
\* output targetDate - now) / 7 days)), which is 4 for a category without
\* outputs or with a latest deadline in the past or less than 4 weeks away; it
\* holds exactly totalWeeks milestones numbered 1..totalWeeks in order, none
\* completed, and its currentWeek is 1.
C14_TotalWeeks ==
    \A k \in 1..Len(pathCalls) :
        Generated(k) =>
            LET path == pathCalls[k].path
            IN  /\ path.totalWeeks = ExpectedWeeks(CategoryOf(k), pathCalls[k].at)
                /\ Len(path.weeklyMilestones) = path.totalWeeks
                /\ \A w \in 1..Len(path.weeklyMilestones) :
                      /\ path.weeklyMilestones[w].weekNumber = w
                      /\ ~path.weeklyMilestones[w].completed
                /\ path.currentWeek = 1

C14_Witness ==
    /\ Len(pathCalls) = 2
    /\ Generated(1) /\ Generated(2)
    /\ pathCalls[1].categoryId = "project" /\ pathCalls[1].path.totalWeeks = 7
    /\ pathCalls[2].categoryId = "career" /\ pathCalls[2].at = 2
    /\ pathCalls[2].path.totalWeeks = 4

\* C15: a call of the manager's createProgressPathForCategory emits exactly one
\* event: PROGRESS_PATH_CREATED, with the path returned, when the path was
\* generated and persisted; PROGRESS_PATH_ERROR with the remediation
\* instructions, with null returned, on any failure, a failure to persist the
\* path included.
C15_OneEventPerCall ==
    \A k \in 1..Len(pathCalls) :
        (pathCalls[k].pc = "done" /\ pathCalls[k].entered) =>
            /\ Len(pathCalls[k].emitted) = 1
            /\ IF Generated(k) /\ pathCalls[k].saved
               THEN /\ pathCalls[k].emitted[1].type = "PROGRESS_PATH_CREATED"
                    /\ pathCalls[k].returned = pathCalls[k].path
               ELSE /\ pathCalls[k].emitted[1] = PathError(CategoryOf(k))
                    /\ pathCalls[k].returned = NoPath

C20_NeverOverwritten ==
    [][\A id \in CategoryIds :
          (pathCalls' # pathCalls /\ pathStorage'[id] # pathStorage[id]) =>
              pathStorage[id] = NoStored]_vars

(***************************************************************************)
(* Claims on the goal lists, the failed reads and Reset All, checked       *)
(* under SpecGoals.                                                        *)
(***************************************************************************)
\* the list the screen handed to its last, completed save is the list a load
\* of its key gives
RoundTrip ==
    (screen.pc = "shown" /\ screen.saved) =>
        /\ goalStorage[screen.key] \notin {NoStored, Corrupt}
        /\ ParseGoals(goalStorage[screen.key]) = screen.goals

\* a step of the screen of one category writes no other category's key
OwnKeyOnly ==
    (screen' # screen /\ screen'.pc = "shown") =>
        \A key \in GoalKeys \ {screen'.key} : goalStorage'[key] = goalStorage[key]

\* C16: for every category title and type, saving a goal list and loading it
\* under goals_{T}_{Y} yields the identical ordered list, and a save made for
\* one category never overwrites the list stored for another.
C16_GoalListRoundTrip == [](RoundTrip) /\ [][OwnKeyOnly]_vars

\* C17: a storage read that fails or returns unparsable data (loadFromStorage,
\* loadGoals, loadProgressPath) changes neither the in-memory data nor any
\* persisted record.
C17_FailedReadIsNoOp ==
    [][readLog'.failed =>
          /\ contextData' = contextData
          /\ disk' = disk
          /\ pathStorage' = pathStorage
          /\ goalStorage' = goalStorage
          /\ screen'.goals = screen.goals]_vars

\* C18: when resetAllChats has reported 'Reset Complete', the chat context
\* store has no tabs in memory and under 'shared_context_data', no
\* progress_path_* key remains and no goal list remains under a goals_* key.
C18_ResetClearsAll ==
    resetReported = "Reset Complete" =>
        /\ contextData = <<>>
        /\ disk = NoBlob \/ Parse(disk) = <<>>
        /\ \A id \in CategoryIds : pathStorage[id] = NoStored
        /\ \A key \in GoalKeys : goalStorage[key] \in {NoStored, Corrupt}

(***************************************************************************)
(* C22, C26                                                                *)
(***************************************************************************)
\* C22, as stated: in a setup chat the stage leaves SETUP only when setup is
\* complete: getCurrentStage returns EXECUTION or REVIEW only for transcripts
\* whose calculateSetupProgress is 100.
C22_LeavesSetupOnlyWhenComplete ==
    (/\ stagePc = "evaluated"
     /\ chatType = "setup"
     /\ currentStage.mainStage \in {"EXECUTION", "REVIEW"})
        => setupProgress = 10000

\* the transcript before its last message
Front(h) == SubSeq(h, 1, Len(h) - 1)

\* C26: setup progress never decreases as a conversation grows: for a
\* transcript h and a message m appended to it,
\* calculateSetupProgress(h followed by m) >= calculateSetupProgress(h).
C26_ProgressNeverDecreases ==
    [][(history' # history /\ Front(history') = history)
          => calculateSetupProgress(history') >= calculateSetupProgress(history)]_vars

\* an appended commitment lifts the progress from 90 to 100 after an
\* assistant message left it where it was
C26_Witness ==
    /\ stagePc = "building"
    /\ Len(history) >= 3
    /\ calculateSetupProgress(history) = 10000
    /\ calculateSetupProgress(Front(history)) = 9000
    /\ \E i \in 2..Len(history) :
          /\ history[i].role = "assistant"
          /\ calculateSetupProgress(SubSeq(history, 1, i))
                = calculateSetupProgress(SubSeq(history, 1, i - 1))

Placeholders == {i \in 1..Len(screenMessages) : screenMessages[i].isLoading}

OneSendInFlight ==
    /\ Len(chatCalls) <= 1
    /\ isLoading <=> chatCalls # <<>>
    /\ Cardinality(Placeholders) = Len(chatCalls)

\* the step in which the awaited aiService.sendMessage call settles
ChatSettled == chatCalls # <<>> /\ chatCalls' = <<>>

SettledSend ==
    ChatSettled =>
        /\ ~isLoading'
        /\ \A i \in 1..Len(screenMessages') : ~screenMessages'[i].isLoading
        /\ Front(screenMessages') = withoutLoading(screenMessages)
        /\ ~screenMessages'[Len(screenMessages')].isUser
        /\ \E i \in 1..(Len(screenMessages') - 1) :
              screenMessages'[i] = ScreenMessage(chatCalls[1].text, TRUE, FALSE)

ReplyMarker == FirstMatch(screenMessages'[Len(screenMessages')].text, StageMatchOf)

\* C27, as stated: when an AI response carries a stage marker [S * N%] with S
\* in {SETUP, EXECUTION, REVIEW}, the ChatScreen displays main stage S with
\* progress N once that response has been processed.
C27_MarkerDisplayed ==
    [][(ChatSettled /\ ReplyMarker # NoMarker) =>
          /\ stageProgress'.mainStage = ReplyMarker.mainStage
          /\ stageProgress'.progress = ReplyMarker.progress]_vars

\* C27 amended: the marker's stage S and progress N are displayed unless it
\* is Saturday (then REVIEW with progress 0 is displayed) or, on another day,
\* the stage displayed when the message was sent was SETUP with progress of
\* at least 100 (then EXECUTION with that weekday's progress is displayed).
C27_MarkerUnlessDayOverride ==
    [][(ChatSettled /\ ReplyMarker # NoMarker) =>
          IF getDayOfWeek(chatDay) = "Saturday"
          THEN stageProgress'.mainStage = "REVIEW" /\ stageProgress'.progress = 0
          ELSE IF stageProgress.mainStage = "SETUP" /\ stageProgress.progress >= 10000
          THEN /\ stageProgress'.mainStage = "EXECUTION"
               /\ stageProgress'.progress = executionProgress(getDayOfWeek(chatDay))
          ELSE /\ stageProgress'.mainStage = ReplyMarker.mainStage
               /\ stageProgress'.progress = ReplyMarker.progress]_vars

\* on a Sunday a reply marked [SETUP * 42%] was processed while SETUP 100 was
\* displayed, and EXECUTION with Sunday's progress is displayed
C27_Witness ==
    /\ chatDay = 0
    /\ ~isLoading
    /\ chatSends = 2
    /\ FirstMatch(screenMessages[Len(screenMessages)].text, StageMatchOf)
          = [kind |-> "stage", mainStage |-> "SETUP", progress |-> 4200]
    /\ stageProgress.mainStage = "EXECUTION"
    /\ stageProgress.progress = 1667
    /\ \E i \in 1..(Len(screenMessages) - 1) :
          FirstMatch(screenMessages[i].text, StageMatchOf)
             = [kind |-> "stage", mainStage |-> "SETUP", progress |-> 10000]

(***************************************************************************)
(* C21                                                                     *)
(***************************************************************************)
\* the position in the log of what run k did (0 when it has not)
LogIndex(k, what) ==
    IF \E i \in 1..Len(setupLog[k]) : setupLog[k][i] = what
    THEN CHOOSE i \in 1..Len(setupLog[k]) : setupLog[k][i] = what
    ELSE 0

CentralStored == StoredMessages(contextData, CentralTabId)

CentralLocal == LocalMessages(messages, CentralTabId)

Occurrences(l, n) == Cardinality({i \in 1..Len(l) : l[i].id = n})

\* the steps the poll can interleave with: sends and their replies, the sync
\* effect, the completion of a save, and the poll itself
PollRaceStep ==
    \/ StorageCommit
    \/ \E t \in TabIds : handleSendMessage(t)
    \/ \E s \in sends : handleSendMessageReply(s)
    \/ syncMessagesWithContext
    \/ \E slot \in 1..MaxSyncs : syncContinue(slot)
    \/ pollForNewMessages

\* C23: over every send, reply, sync and poll step a check-in that is in the
\* store's central-hub list stays there (so that the poll can still copy it),
\* one that is in the local central-hub list stays there, and the local list
\* never holds it twice.
C23_CheckInKeptAndCopiedOnce ==
    [][PollRaceStep =>
         \A n \in checkIns :
            /\ Occurrences(CentralStored, n) > 0 => Occurrences(CentralStored', n) > 0
            /\ Occurrences(CentralLocal, n) > 0 => Occurrences(CentralLocal', n) > 0
            /\ Occurrences(CentralLocal', n) <= 1]_vars

\* the poll has copied a check-in into the local list
C23_Witness ==
    \E n \in checkIns :
       /\ Occurrences(CentralStored, n) = 1
       /\ Occurrences(CentralLocal, n) = 1


\* C28: every weekly milestone of every stored progress path has non-empty
\* objectives, actions and successCriteria, whatever the category.
C28_MilestonesFilled ==
    \A id \in CategoryIds :
       pathStorage[id] # NoStored =>
          LET path == ParsePath(pathStorage[id])
          IN  \A w \in 1..Len(path.weeklyMilestones) :
                 /\ path.weeklyMilestones[w].objectives # <<>>
                 /\ path.weeklyMilestones[w].actions # <<>>
                 /\ path.weeklyMilestones[w].successCriteria # <<>>


(***************************************************************************)
(* Claims about the web App's navigation (checked under SpecApp).          *)
(***************************************************************************)
\* C29: before login only the login screen is rendered; on the goalDetail
\* screen a goal is selected; an open goal chat has a goal context.
C29_NavigationConsistent ==
    /\ ~isLoggedIn => renderScreen = "LoginScreen"
    /\ currentScreen = "goalDetail" => selectedGoal \in AppGoals
    /\ showGoalChat => activeGoalContext \in AppGoals

\* a goal detail opened while the chat of another goal is still open
C29_Witness ==
    /\ isLoggedIn
    /\ currentScreen = "goalDetail"
    /\ showGoalChat
    /\ selectedGoal # activeGoalContext


(***************************************************************************)
(* Claims about the web GoalDetailScreen (checked under SpecDetail).       *)
(***************************************************************************)
\* C30: the completion percentage of the goal list is a defined number
\* between 0 and 100.
C30_PercentageDefined ==
    LET p == progressPercentage(individualGoals)
    IN  /\ ~p.nan
        /\ 0 <= p.value
        /\ p.value <= 10000

=============================================================================
